---- MODULE Spec2Model ----
(***************************************************************************)
(* Verification model of cmooneycollett/aoc2022: the shared cartography    *)
(* helpers and the one-shot solvers of the puzzle binaries.  Every binary  *)
(* is an independent program, so each has a state variable of its own and  *)
(* a specification of its own; the variables of the other programs stay    *)
(* idle under it.                                                          *)
(***************************************************************************)
EXTENDS Integers, Sequences, FiniteSets, TLC

VARIABLES
    geo,    \* utils/cartography: the two points of a Point2D call and its result
    d17,    \* bin/day17.rs
    d21,    \* bin/day21.rs
    d25,    \* bin/day25.rs
    parse,  \* process_input_file of the days' binaries
    d23,    \* bin/day23.rs
    d24,    \* bin/day24.rs
    d18,    \* bin/day18.rs
    d16,    \* bin/day16.rs
    d19,    \* bin/day19.rs
    d11,    \* bin/day11.rs
    wild,   \* utils/wildlife/monkey.rs
    d06,    \* bin/day06.rs
    d15,    \* bin/day15.rs
    main    \* main of the binaries whose solvers mutate working state

vars == <<geo, d17, d21, d25, parse, d23, d24, d18, d16, d19, d11, wild, d06, d15, main>>

Idle == [pc |-> "idle"]

Abs(n) == IF n < 0 THEN -n ELSE n

Max(a, b) == IF a >= b THEN a ELSE b

Min(a, b) == IF a <= b THEN a ELSE b

---------------------------------------------------------------------------
(* utils/cartography/point2d.rs *)

\* Largest absolute coordinate of the points drawn for the Point2D calls.
MaxCoord == 2

Coords == (0 - MaxCoord)..MaxCoord

Point2D(x, y) == [x |-> x, y |-> y]

is_adjacent(self, other) ==
    Abs(self.x - other.x) > 1 \/ Abs(self.y - other.y) > 1

GeoInit ==
    /\ geo \in [pc : {"called"}, self : [x : Coords, y : Coords],
                other : [x : Coords, y : Coords], result : {FALSE}]
    /\ d17 = Idle /\ d21 = Idle /\ d25 = Idle /\ parse = Idle /\ d23 = Idle
    /\ d24 = Idle /\ d18 = Idle /\ d16 = Idle /\ d19 = Idle /\ d11 = Idle /\ wild = Idle
    /\ d06 = Idle /\ d15 = Idle /\ main = Idle

IsAdjacentCall ==
    /\ geo.pc = "called"
    /\ geo' = [geo EXCEPT !.pc = "returned",
                          !.result = is_adjacent(geo.self, geo.other)]
    /\ UNCHANGED <<d17, d21, d25, parse, d23, d24, d18, d16, d19, d11, wild, d06, d15, main>>

GeoNext == IsAdjacentCall

SpecGeo == GeoInit /\ [][GeoNext]_vars

\* C1: is_adjacent is true for distinct points within 1 on both axes and
\* false for points more than 1 apart on some axis.
C1_IsAdjacentMeansNeighbour ==
    geo.pc = "returned" =>
        LET dx == Abs(geo.self.x - geo.other.x)
            dy == Abs(geo.self.y - geo.other.y)
        IN  /\ (geo.self # geo.other /\ dx <= 1 /\ dy <= 1) => geo.result = TRUE
            /\ (dx > 1 \/ dy > 1) => geo.result = FALSE

---------------------------------------------------------------------------
(* bin/day17.rs: Pyroclastic Flow *)

\* Longest jet pattern drawn as the puzzle input.
MaxJetLen == 3

\* Number of rocks sampled before the period search (PART2_SAMPLE_SIZE is
\* 10000 in the source; the search itself is the source's).
SampleSize == 10

\* Largest target rock count (PART2_ROCKS is 10^12 in the source).
MaxTarget == 12

JetPatterns == UNION {[1..n -> {"<", ">"}] : n \in 1..MaxJetLen}

\* Rust's integer division and remainder truncate towards zero.
RustDiv(a, b) == IF (a >= 0) = (b > 0) THEN Abs(a) \div Abs(b) ELSE 0 - (Abs(a) \div Abs(b))

RustRem(a, b) == a - b * RustDiv(a, b)

rock_types == <<"RockHorizBar", "RockCross", "RockL", "RockVertBar", "RockSquare">>

check_move_point(p, dx, dy) == Point2D(p.x + dx, p.y + dy)

generate_new_rock(rock_type, y) ==
    CASE rock_type = "RockHorizBar" ->
            LET root_tile == Point2D(2, y)
            IN  {root_tile, check_move_point(root_tile, 1, 0),
                 check_move_point(root_tile, 2, 0), check_move_point(root_tile, 3, 0)}
      [] rock_type = "RockCross" ->
            LET root_tile == Point2D(3, y + 2)
            IN  {root_tile, check_move_point(root_tile, -1, -1),
                 check_move_point(root_tile, 0, -1), check_move_point(root_tile, 1, -1),
                 check_move_point(root_tile, 0, -2)}
      [] rock_type = "RockL" ->
            LET root_tile == Point2D(2, y)
            IN  {root_tile, check_move_point(root_tile, 1, 0),
                 check_move_point(root_tile, 2, 0), check_move_point(root_tile, 2, 1),
                 check_move_point(root_tile, 2, 2)}
      [] rock_type = "RockVertBar" ->
            LET root_tile == Point2D(2, y)
            IN  {root_tile, check_move_point(root_tile, 0, 1),
                 check_move_point(root_tile, 0, 2), check_move_point(root_tile, 0, 3)}
      [] rock_type = "RockSquare" ->
            LET root_tile == Point2D(2, y)
            IN  {root_tile, check_move_point(root_tile, 1, 0),
                 check_move_point(root_tile, 0, 1), check_move_point(root_tile, 1, 1)}

\* The floor the simulation starts with: y = -1 under the 7 columns.
InitialRockLocations == {Point2D(x, -1) : x \in 0..6}

\* The jet push of one loop iteration: the rock moved one column, or the
\* rock itself when a tile would leave the cave or hit settled rock.
PushRock(rock, dirn, rock_locations) ==
    LET dx == IF dirn = "<" THEN -1 ELSE 1
        wall == IF dirn = "<" THEN 0 ELSE 6
        has_collision == \E tile \in rock :
            tile.x = wall \/ check_move_point(tile, dx, 0) \in rock_locations
    IN  IF has_collision THEN rock ELSE {check_move_point(tile, dx, 0) : tile \in rock}

DownCollision(rock, rock_locations) ==
    \E tile \in rock : check_move_point(tile, 0, -1) \in rock_locations

MoveDown(rock) == {check_move_point(tile, 0, -1) : tile \in rock}

SetMax(S) == CHOOSE m \in S : \A k \in S : k <= m

SetMin(S) == CHOOSE m \in S : \A k \in S : m <= k

\* solve_part1 with PART1_ROCKS as the parameter n: the state of its loop
\* is (rock_locations, rock_max_height, jets consumed, rock in flight).
RECURSIVE P1Fall(_, _, _, _, _)
P1Fall(input, rock_locations, rock_max_height, jets, rock) ==
    LET dirn == input[(jets % Len(input)) + 1]
        pushed == PushRock(rock, dirn, rock_locations)
    IN  IF ~DownCollision(pushed, rock_locations)
        THEN P1Fall(input, rock_locations, rock_max_height, jets + 1, MoveDown(pushed))
        ELSE [rock_locations |-> rock_locations \cup pushed,
              rock_max_height |-> Max(rock_max_height, SetMax({p.y : p \in pushed})),
              jets |-> jets + 1]

RECURSIVE P1Loop(_, _, _, _)
P1Loop(input, n, i, st) ==
    IF i >= n THEN st
    ELSE P1Loop(input, n, i + 1,
                P1Fall(input, st.rock_locations, st.rock_max_height, st.jets,
                       generate_new_rock(rock_types[(i % 5) + 1], st.rock_max_height + 4)))

solve_part1(input, n) ==
    P1Loop(input, n, 0, [rock_locations |-> InitialRockLocations,
                         rock_max_height |-> -1, jets |-> 0]).rock_max_height + 1

CaveState(max_height, jet_index) == [max_height |-> max_height, jet_index |-> jet_index]

\* The period search of solve_part2 over the sampled states (0-based
\* indices as in the source): the (period_len, offset) pairs that pass the
\* test, and the first of them in the loops' order.
PeriodHit(rock_states, period_len, offset) ==
    LET state0 == rock_states[offset + 1]
        state1 == rock_states[offset + period_len + 1]
        state2 == rock_states[offset + period_len * 2 + 1]
        delta0 == state1.max_height - state0.max_height
        delta1 == state2.max_height - state1.max_height
    IN  /\ delta0 = delta1
        /\ state0.jet_index = state1.jet_index
        /\ state1.jet_index = state2.jet_index

PeriodCandidates(rock_states, sample) ==
    {c \in (1..sample) \X (0..(sample - 1)) :
        /\ c[2] + c[1] * 2 < sample
        /\ PeriodHit(rock_states, c[1], c[2])}

FirstPeriod(cands) ==
    CHOOSE c \in cands : \A e \in cands :
        c[1] < e[1] \/ (c[1] = e[1] /\ c[2] <= e[2])

Extrapolate(rock_states, period_len, offset, rocks) ==
    LET state0 == rock_states[offset + 1]
        state1 == rock_states[offset + period_len + 1]
        state2 == rock_states[offset + period_len * 2 + 1]
        delta1 == state2.max_height - state1.max_height
        remaining_steps == rocks - offset
        full_periods_remaining == RustDiv(remaining_steps, period_len)
        extra_steps == RustRem(remaining_steps, period_len)
        steps_from_full_periods == full_periods_remaining * delta1
        steps_from_extra == rock_states[offset + extra_steps + 1].max_height
                            - rock_states[offset + 1].max_height
    IN  state0.max_height + steps_from_extra + steps_from_full_periods

D17Init ==
    /\ d17 \in [pc : {"spawn"}, input : JetPatterns, target : 1..MaxTarget,
                rock_locations : {InitialRockLocations}, rock_max_height : {-1},
                rock : {{}}, jets_used : {0}, rock_states : {<<>>},
                period_len : {0}, offset : {0}, result : {0}]
    /\ geo = Idle /\ d21 = Idle /\ d25 = Idle /\ parse = Idle /\ d23 = Idle
    /\ d24 = Idle /\ d18 = Idle /\ d16 = Idle /\ d19 = Idle /\ d11 = Idle /\ wild = Idle
    /\ d06 = Idle /\ d15 = Idle /\ main = Idle

D17Others == UNCHANGED <<geo, d21, d25, parse, d23, d24, d18, d16, d19, d11, wild, d06, d15, main>>

\* for _ in 0..PART2_SAMPLE_SIZE: the next rock appears.
D17NewRock ==
    /\ d17.pc = "spawn"
    /\ Len(d17.rock_states) < SampleSize
    /\ d17' = [d17 EXCEPT !.pc = "fall",
                 !.rock = generate_new_rock(rock_types[(Len(d17.rock_states) % 5) + 1],
                                            d17.rock_max_height + 4)]
    /\ D17Others

\* One iteration of the inner loop in which the rock can move down.
D17RockFalls ==
    /\ d17.pc = "fall"
    /\ LET dirn == d17.input[(d17.jets_used % Len(d17.input)) + 1]
           pushed == PushRock(d17.rock, dirn, d17.rock_locations)
       IN  /\ ~DownCollision(pushed, d17.rock_locations)
           /\ d17' = [d17 EXCEPT !.jets_used = @ + 1, !.rock = MoveDown(pushed)]
    /\ D17Others

\* One iteration of the inner loop in which the rock comes to rest, and the
\* push of the cave state that follows the loop.
D17RockRests ==
    /\ d17.pc = "fall"
    /\ LET dirn == d17.input[(d17.jets_used % Len(d17.input)) + 1]
           pushed == PushRock(d17.rock, dirn, d17.rock_locations)
           new_rock_max_height == SetMax({p.y : p \in pushed})
           height == Max(d17.rock_max_height, new_rock_max_height)
       IN  /\ DownCollision(pushed, d17.rock_locations)
           /\ d17' = [d17 EXCEPT !.pc = "spawn", !.jets_used = @ + 1, !.rock = {},
                        !.rock_max_height = height,
                        !.rock_locations = @ \cup pushed,
                        !.rock_states = Append(@, CaveState(height,
                                          (d17.jets_used + 1) % Len(d17.input)))]
    /\ D17Others

\* The period search finds a period: the extrapolated height is returned.
D17PeriodFound ==
    /\ d17.pc = "spawn"
    /\ Len(d17.rock_states) = SampleSize
    /\ LET cands == PeriodCandidates(d17.rock_states, SampleSize)
       IN  /\ cands # {}
           /\ LET c == FirstPeriod(cands)
              IN  d17' = [d17 EXCEPT !.pc = "returned", !.period_len = c[1], !.offset = c[2],
                            !.result = Extrapolate(d17.rock_states, c[1], c[2], d17.target)]
    /\ D17Others

\* The period search finds nothing: panic!.
D17NoPeriod ==
    /\ d17.pc = "spawn"
    /\ Len(d17.rock_states) = SampleSize
    /\ PeriodCandidates(d17.rock_states, SampleSize) = {}
    /\ d17' = [d17 EXCEPT !.pc = "panicked"]
    /\ D17Others

D17Next == D17NewRock \/ D17RockFalls \/ D17RockRests \/ D17PeriodFound \/ D17NoPeriod

SpecDay17 == D17Init /\ [][D17Next]_vars

\* C2: the height solve_part2 extrapolates for the target rock count equals
\* the height solve_part1's simulation reaches with that many rocks.
C2_ExtrapolationEqualsSimulation ==
    d17.pc = "returned" => d17.result = solve_part1(d17.input, d17.target)

---------------------------------------------------------------------------
(* bin/day21.rs: Monkey Math *)

\* Largest number a monkey of the drawn inputs yells.
MaxYell == 2

\* Largest number tried for "humn" when the claim asks whether an answer exists.
MaxHumn == 8

YellValues == 0..MaxYell

Nop(value) == [op |-> "Nop", value |-> value, left |-> "", right |-> "", var |-> ""]

Variable(var) == [op |-> "Variable", value |-> 0, left |-> "", right |-> "", var |-> var]

BinOp(op, left, right) == [op |-> op, value |-> 0, left |-> left, right |-> right, var |-> ""]

ArithOps == {"Add", "Subtract", "Multiply", "Divide"}

\* The parsed inputs: "root" combines a subtree that holds "humn" (once)
\* with a subtree of numbers, in either order; a number-only "root" stands
\* for the input solve_part2 rejects.  The humn-free subtree has at most one
\* operation, so no operation of evaluate_rpn reads a wrapped u64.
HumnSides ==
    {<<"humn", ("humn" :> Nop(5))>>}
    \cup {<<"a", ("a" :> BinOp(o, "humn", "c")) @@ ("c" :> Nop(v)) @@ ("humn" :> Nop(5))>> :
            o \in ArithOps, v \in YellValues}
    \cup {<<"a", ("a" :> BinOp(o, "c", "humn")) @@ ("c" :> Nop(v)) @@ ("humn" :> Nop(5))>> :
            o \in ArithOps, v \in YellValues}

NumberSides ==
    {<<"b", ("b" :> Nop(v))>> : v \in YellValues}
    \cup {<<"b", ("b" :> BinOp(o, "d", "e")) @@ ("d" :> Nop(v)) @@ ("e" :> Nop(w))>> :
            o \in ArithOps, v \in YellValues, w \in YellValues}

Day21Inputs ==
    {("root" :> BinOp(o, h[1], n[1])) @@ h[2] @@ n[2] :
        o \in ArithOps, h \in HumnSides, n \in NumberSides}
    \cup {("root" :> BinOp(o, n[1], h[1])) @@ h[2] @@ n[2] :
        o \in ArithOps, h \in HumnSides, n \in NumberSides}
    \cup {("root" :> Nop(v)) @@ ("humn" :> Nop(5)) : v \in YellValues}

\* A string is the sequence of its lexical pieces: a run of digits (one
\* number) or a single other character.
Num(v) == [kind |-> "num", num |-> v, sym |-> ""]

Sym(c) == [kind |-> "sym", num |-> 0, sym |-> c]

Str(chars) == [i \in 1..Len(chars) |-> Sym(chars[i])]

OpSymbol(op) ==
    CASE op = "Add" -> "+" [] op = "Subtract" -> "-" [] op = "Multiply" -> "*"
      [] op = "Divide" -> "/" [] op = "Equal" -> "="

RECURSIVE generate_monkey_expression(_, _)
generate_monkey_expression(name, monkey_ops) ==
    LET m == monkey_ops[name]
    IN  CASE m.op = "Nop" -> <<Num(m.value)>>
          [] m.op = "Variable" -> Str(<<"h", "u", "m", "n">>)
          [] m.op = "Equal" ->
                generate_monkey_expression(m.left, monkey_ops)
                \o Str(<<" ", "=", " ">>)
                \o generate_monkey_expression(m.right, monkey_ops)
          [] OTHER ->
                Str(<<"(">>) \o generate_monkey_expression(m.left, monkey_ops)
                \o Str(<<" ", OpSymbol(m.op), " ">>)
                \o generate_monkey_expression(m.right, monkey_ops) \o Str(<<")">>)

\* root_expr.split(" = "): the pieces between the occurrences of " = ".
IsSeparatorAt(expr, i) ==
    /\ i + 2 <= Len(expr)
    /\ expr[i] = Sym(" ") /\ expr[i + 1] = Sym("=") /\ expr[i + 2] = Sym(" ")

RECURSIVE SplitFrom(_, _, _)
SplitFrom(expr, i, piece) ==
    IF i > Len(expr) THEN <<piece>>
    ELSE IF IsSeparatorAt(expr, i) THEN <<piece>> \o SplitFrom(expr, i + 3, <<>>)
    ELSE SplitFrom(expr, i + 1, Append(piece, expr[i]))

split(expr) == SplitFrom(expr, 1, <<>>)

get_precedence(token) ==
    CASE token = Sym("*") -> 3
      [] token = Sym("/") -> 3
      [] token = Sym("+") -> 2
      [] token = Sym("-") -> 2
      [] OTHER -> -1   \* panic!("Bad token for precedence check")

\* REGEX_TOKEN after expr.replace(' ', ""): numbers, parentheses, operators
\* and single lower-case letters are tokens; anything else is skipped.
Tokens(expr) ==
    SelectSeq(expr, LAMBDA t : t.kind = "num"
        \/ t.sym \in {"(", ")", "+", "-", "*", "/", "h", "u", "m", "n"})

\* The while loop of the operator branch: pops into output while the top of
\* the stack binds tighter; a top or a token without precedence panics.
RECURSIVE PopTighter(_, _)
PopTighter(st, token) ==
    IF st.op_stack = <<>> \/ st.op_stack[Len(st.op_stack)] = Sym("(") THEN st
    ELSE LET back == st.op_stack[Len(st.op_stack)]
         IN  IF get_precedence(back) = -1 \/ get_precedence(token) = -1
             THEN [st EXCEPT !.panicked = TRUE]
             ELSE IF get_precedence(back) > get_precedence(token)
             THEN PopTighter([st EXCEPT !.output = Append(@, back),
                                        !.op_stack = SubSeq(@, 1, Len(@) - 1)], token)
             ELSE st

\* The while loop of the ")" branch; op_stack.back().unwrap() panics on an
\* empty stack.
RECURSIVE PopToParen(_)
PopToParen(st) ==
    IF st.op_stack = <<>> THEN [st EXCEPT !.panicked = TRUE]
    ELSE IF st.op_stack[Len(st.op_stack)] = Sym("(")
    THEN [st EXCEPT !.op_stack = SubSeq(@, 1, Len(@) - 1)]
    ELSE PopToParen([st EXCEPT !.output = Append(@, st.op_stack[Len(st.op_stack)]),
                               !.op_stack = SubSeq(@, 1, Len(@) - 1)])

Reverse(seq) == [i \in 1..Len(seq) |-> seq[Len(seq) + 1 - i]]

RECURSIVE RpnLoop(_, _, _)
RpnLoop(tokens, i, st) ==
    IF st.panicked THEN st
    ELSE IF i > Len(tokens) THEN [st EXCEPT !.output = @ \o Reverse(st.op_stack),
                                            !.op_stack = <<>>]
    ELSE LET token == tokens[i]
         IN  IF token.kind = "num" THEN RpnLoop(tokens, i + 1, [st EXCEPT !.output = Append(@, token)])
             ELSE IF token = Sym("(") THEN RpnLoop(tokens, i + 1, [st EXCEPT !.op_stack = Append(@, token)])
             ELSE IF token = Sym(")") THEN RpnLoop(tokens, i + 1, PopToParen(st))
             ELSE LET popped == PopTighter(st, token)
                  IN  RpnLoop(tokens, i + 1, [popped EXCEPT !.op_stack = Append(@, token)])

\* [panicked, output]: the RPN token list, or the panic of the conversion.
convert_to_rpn(expr) ==
    RpnLoop(Tokens(expr), 1, [op_stack |-> <<>>, output |-> <<>>, panicked |-> FALSE])

\* evaluate_rpn on u64: [panicked, value].  left - right below zero panics
\* in a debug build and wraps in a release build; the wrapped value
\* 2^64 + left - right is kept as the negative number left - right.
RECURSIVE EvalLoop(_, _, _, _)
EvalLoop(rpn, i, stack, build) ==
    IF i > Len(rpn)
    THEN IF stack = <<>> THEN [panicked |-> TRUE, value |-> 0]
         ELSE [panicked |-> FALSE, value |-> stack[Len(stack)]]
    ELSE LET token == rpn[i]
         IN  IF token.kind = "num" THEN EvalLoop(rpn, i + 1, Append(stack, token.num), build)
             ELSE IF Len(stack) < 2 THEN [panicked |-> TRUE, value |-> 0]
             ELSE LET right == stack[Len(stack)]
                      left == stack[Len(stack) - 1]
                      rest == SubSeq(stack, 1, Len(stack) - 2)
                  IN  CASE token = Sym("+") -> EvalLoop(rpn, i + 1, Append(rest, left + right), build)
                        [] token = Sym("-") ->
                              IF left < right /\ build = "debug"
                              THEN [panicked |-> TRUE, value |-> 0]
                              ELSE EvalLoop(rpn, i + 1, Append(rest, left - right), build)
                        [] token = Sym("*") -> EvalLoop(rpn, i + 1, Append(rest, left * right), build)
                        [] token = Sym("/") ->
                              IF right = 0 THEN [panicked |-> TRUE, value |-> 0]
                              ELSE EvalLoop(rpn, i + 1, Append(rest, left \div right), build)
                        [] OTHER -> [panicked |-> TRUE, value |-> 0]

evaluate_rpn(rpn, build) == EvalLoop(rpn, 1, <<>>, build)

\* Some(v) / a panic of the i64 evaluation (division by zero, Variable).
RECURSIVE determine_monkey_yell_value(_, _)
determine_monkey_yell_value(name, monkey_ops) ==
    LET m == monkey_ops[name]
    IN  IF m.op = "Nop" THEN [panicked |-> FALSE, value |-> m.value]
        ELSE IF m.op = "Variable" THEN [panicked |-> TRUE, value |-> 0]
        ELSE LET l == determine_monkey_yell_value(m.left, monkey_ops)
                 r == determine_monkey_yell_value(m.right, monkey_ops)
             IN  IF l.panicked \/ r.panicked THEN [panicked |-> TRUE, value |-> 0]
                 ELSE CASE m.op = "Add" -> [panicked |-> FALSE, value |-> l.value + r.value]
                        [] m.op = "Subtract" -> [panicked |-> FALSE, value |-> l.value - r.value]
                        [] m.op = "Multiply" -> [panicked |-> FALSE, value |-> l.value * r.value]
                        [] m.op = "Divide" ->
                              IF r.value = 0 THEN [panicked |-> TRUE, value |-> 0]
                              ELSE [panicked |-> FALSE, value |-> RustDiv(l.value, r.value)]

D21Init ==
    /\ d21 \in [pc : {"start"}, monkey_ops : Day21Inputs, build : {"debug", "release"},
                monkey_ops_mod : {<<>>}, sides : {<<>>}, rpn : {<<>>}, result : {0},
                returned : {0}]
    /\ geo = Idle /\ d17 = Idle /\ d25 = Idle /\ parse = Idle /\ d23 = Idle
    /\ d24 = Idle /\ d18 = Idle /\ d16 = Idle /\ d19 = Idle /\ d11 = Idle /\ wild = Idle
    /\ d06 = Idle /\ d15 = Idle /\ main = Idle

D21Others == UNCHANGED <<geo, d17, d25, parse, d23, d24, d18, d16, d19, d11, wild, d06, d15, main>>

\* Lines 116-139: "root" becomes Equal and "humn" a Variable.
D21RewriteRoot ==
    /\ d21.pc = "start"
    /\ d21.monkey_ops["root"].op \in ArithOps
    /\ LET old_root_op == d21.monkey_ops["root"]
           new_root_op == BinOp("Equal", old_root_op.left, old_root_op.right)
       IN  d21' = [d21 EXCEPT !.pc = "rewritten",
                     !.monkey_ops_mod = [d21.monkey_ops EXCEPT !["root"] = new_root_op,
                                                               !["humn"] = Variable("humn")]]
    /\ D21Others

\* Line 136: panic!("Bad \"root\" old op!").
D21BadRoot ==
    /\ d21.pc = "start"
    /\ d21.monkey_ops["root"].op \notin ArithOps
    /\ d21' = [d21 EXCEPT !.pc = "panicked"]
    /\ D21Others

\* Lines 141-142.
D21SplitExpression ==
    /\ d21.pc = "rewritten"
    /\ d21' = [d21 EXCEPT !.pc = "split",
                 !.sides = split(generate_monkey_expression("root", d21.monkey_ops_mod))]
    /\ D21Others

\* Line 143.
D21ConvertToRpn ==
    /\ d21.pc = "split"
    /\ LET rpn == convert_to_rpn(d21.sides[2])
       IN  d21' = IF rpn.panicked THEN [d21 EXCEPT !.pc = "panicked"]
                  ELSE [d21 EXCEPT !.pc = "converted", !.rpn = rpn.output]
    /\ D21Others

\* Line 144.
D21EvaluateRpn ==
    /\ d21.pc = "converted"
    /\ LET result == evaluate_rpn(d21.rpn, d21.build)
       IN  d21' = IF result.panicked THEN [d21 EXCEPT !.pc = "panicked"]
                  ELSE [d21 EXCEPT !.pc = "evaluated", !.result = result.value]
    /\ D21Others

\* Lines 154-167: the result is printed and 0 is returned.
D21Return ==
    /\ d21.pc = "evaluated"
    /\ d21' = [d21 EXCEPT !.pc = "returned", !.returned = 0]
    /\ D21Others

D21Next ==
    \/ D21RewriteRoot \/ D21BadRoot \/ D21SplitExpression
    \/ D21ConvertToRpn \/ D21EvaluateRpn \/ D21Return

SpecDay21 == D21Init /\ [][D21Next]_vars

\* Whether "root"'s two operands evaluate to the same value when "humn" yells h.
HumnSolves(monkey_ops, h) ==
    LET yelled == [monkey_ops EXCEPT !["humn"] = Nop(h)]
        l == determine_monkey_yell_value(monkey_ops["root"].left, yelled)
        r == determine_monkey_yell_value(monkey_ops["root"].right, yelled)
    IN  ~l.panicked /\ ~r.panicked /\ l.value = r.value

\* C3: what solve_part2 returns is a number for "humn" that makes the two
\* operands of "root" equal (whenever such a number exists).
C3_Part2ReturnsHumnNumber ==
    (/\ d21.pc = "returned"
     /\ \E h \in 0..MaxHumn : HumnSolves(d21.monkey_ops, h))
        => HumnSolves(d21.monkey_ops, d21.returned)

---------------------------------------------------------------------------
(* bin/day25.rs: Full of Hot Air *)

\* Width in bits of the signed integer type of the SNAFU arithmetic.  The
\* source computes in i64; the conversions depend on the width only through
\* the largest power of 5 it holds, so they are checked at a narrow width.
IntBits == 6

\* Largest number of characters in the numerals of one input file.
MaxInputDigits == 3

RECURSIVE Pow(_, _)
Pow(b, e) == IF e = 0 THEN 1 ELSE b * Pow(b, e - 1)

MaxInt == Pow(2, IntBits - 1) - 1

MinInt == 0 - Pow(2, IntBits - 1)

\* An arithmetic result x of the integer type: overflow panics in a debug
\* build and wraps in a release build.
Checked(x, build) ==
    IF MinInt <= x /\ x <= MaxInt THEN [panicked |-> FALSE, value |-> x]
    ELSE IF build = "debug" THEN [panicked |-> TRUE, value |-> 0]
    ELSE [panicked |-> FALSE,
          value |-> ((x - MinInt) % Pow(2, IntBits)) + MinInt]

SNAFU_DIGITS_InValueOrder == <<"0", "1", "2", "-", "=">>

SNAFU_DIGITS == <<"0", "1", "2", "=", "-">>

\* The loop of convert_decimal_to_snafu; output holds the digits pushed so
\* far, most significant first (the source pushes and reverses at the end).
\* SNAFU_DIGITS[i] with a negative remainder cast to usize is out of range.
RECURSIVE EncodeLoop(_, _, _)
EncodeLoop(holder, output, build) ==
    LET i == RustRem(holder, 5)
        sum == Checked(holder + 2, build)
    IN  IF i < 0 \/ sum.panicked THEN [panicked |-> TRUE, value |-> <<>>]
        ELSE LET next == RustDiv(sum.value, 5)
                 pushed == <<SNAFU_DIGITS[i + 1]>> \o output
             IN  IF next = 0 THEN [panicked |-> FALSE, value |-> pushed]
                 ELSE EncodeLoop(next, pushed, build)

convert_decimal_to_snafu(value, build) == EncodeLoop(value, <<>>, build)

DigitFactor(c) ==
    CASE c = "0" -> 0 [] c = "1" -> 1 [] c = "2" -> 2 [] c = "-" -> -1 [] c = "=" -> -2

\* The loop of convert_snafu_number_to_decimal over the characters from the
\* last (k = Len) to the first.
RECURSIVE DecodeLoop(_, _, _, _, _)
DecodeLoop(snafu_number, k, snafu_decimal, place, build) ==
    IF k = 0 THEN [panicked |-> FALSE, value |-> snafu_decimal]
    ELSE LET c == snafu_number[k]
         IN  IF c \notin {"0", "1", "2", "-", "="} THEN [panicked |-> TRUE, value |-> 0]
             ELSE LET term == IF c \in {"0", "1"} THEN [panicked |-> FALSE, value |-> place]
                              ELSE Checked(place * DigitFactor(c), build)
                      added == IF c = "0" THEN [panicked |-> FALSE, value |-> snafu_decimal]
                               ELSE IF term.panicked THEN term
                               ELSE Checked(snafu_decimal + term.value, build)
                      next_place == Checked(place * 5, build)
                  IN  IF added.panicked \/ next_place.panicked
                      THEN [panicked |-> TRUE, value |-> 0]
                      ELSE DecodeLoop(snafu_number, k - 1, added.value, next_place.value, build)

convert_snafu_number_to_decimal(snafu_number, build) ==
    DecodeLoop(snafu_number, Len(snafu_number), 0, 1, build)

\* The lines of an input file: non-empty strings; process_input_file does
\* not look at their characters ("x" stands for any character that is not a
\* SNAFU digit).
InputChars == {"0", "1", "2", "-", "=", "x"}

InputLines(n) == [1..n -> InputChars]

\* The non-empty lists of lines with at most budget characters in all.
RECURSIVE LinesWithin(_)
LinesWithin(budget) ==
    UNION {{<<l>> : l \in InputLines(n)}
           \cup {<<l>> \o rest : l \in InputLines(n), rest \in LinesWithin(budget - n)} :
           n \in 1..budget}

Day25Inputs == LinesWithin(MaxInputDigits)

D25Fields(pcs, values, inputs) ==
    [pc : pcs, build : {"debug", "release"}, value : values, snafu : {<<>>},
     decoded : {0}, snafu_numbers : inputs, next : {1}, snafu_sum : {0}, result : {<<>>}]

D25Init ==
    /\ \/ d25 \in D25Fields({"encode"}, 0..MaxInt, {<<>>})
       \/ d25 \in D25Fields({"summing"}, {0}, Day25Inputs)
    /\ geo = Idle /\ d17 = Idle /\ d21 = Idle /\ parse = Idle /\ d23 = Idle
    /\ d24 = Idle /\ d18 = Idle /\ d16 = Idle /\ d19 = Idle /\ d11 = Idle /\ wild = Idle
    /\ d06 = Idle /\ d15 = Idle /\ main = Idle

D25Others == UNCHANGED <<geo, d17, d21, parse, d23, d24, d18, d16, d19, d11, wild, d06, d15, main>>

\* convert_decimal_to_snafu(value) returns.
D25Encode ==
    /\ d25.pc = "encode"
    /\ LET r == convert_decimal_to_snafu(d25.value, d25.build)
       IN  /\ ~r.panicked
           /\ d25' = [d25 EXCEPT !.pc = "decode", !.snafu = r.value]
    /\ D25Others

D25EncodePanics ==
    /\ d25.pc = "encode"
    /\ convert_decimal_to_snafu(d25.value, d25.build).panicked
    /\ d25' = [d25 EXCEPT !.pc = "encode_panicked"]
    /\ D25Others

\* convert_snafu_number_to_decimal of the string just produced returns.
D25Decode ==
    /\ d25.pc = "decode"
    /\ LET r == convert_snafu_number_to_decimal(d25.snafu, d25.build)
       IN  /\ ~r.panicked
           /\ d25' = [d25 EXCEPT !.pc = "round_trip", !.decoded = r.value]
    /\ D25Others

D25DecodePanics ==
    /\ d25.pc = "decode"
    /\ convert_snafu_number_to_decimal(d25.snafu, d25.build).panicked
    /\ d25' = [d25 EXCEPT !.pc = "decode_panicked"]
    /\ D25Others

\* solve_part1: one iteration of the summing loop.
D25AddNumber ==
    /\ d25.pc = "summing"
    /\ d25.next <= Len(d25.snafu_numbers)
    /\ LET r == convert_snafu_number_to_decimal(d25.snafu_numbers[d25.next], d25.build)
           sum == Checked(d25.snafu_sum + r.value, d25.build)
       IN  /\ ~r.panicked /\ ~sum.panicked
           /\ d25' = [d25 EXCEPT !.next = @ + 1, !.snafu_sum = sum.value]
    /\ D25Others

D25AddPanics ==
    /\ d25.pc = "summing"
    /\ d25.next <= Len(d25.snafu_numbers)
    /\ LET r == convert_snafu_number_to_decimal(d25.snafu_numbers[d25.next], d25.build)
       IN  r.panicked \/ Checked(d25.snafu_sum + r.value, d25.build).panicked
    /\ d25' = [d25 EXCEPT !.pc = "panicked"]
    /\ D25Others

\* solve_part1: the sum is converted and returned.
D25Return ==
    /\ d25.pc = "summing"
    /\ d25.next > Len(d25.snafu_numbers)
    /\ LET r == convert_decimal_to_snafu(d25.snafu_sum, d25.build)
       IN  /\ ~r.panicked
           /\ d25' = [d25 EXCEPT !.pc = "returned", !.result = r.value]
    /\ D25Others

D25ReturnPanics ==
    /\ d25.pc = "summing"
    /\ d25.next > Len(d25.snafu_numbers)
    /\ convert_decimal_to_snafu(d25.snafu_sum, d25.build).panicked
    /\ d25' = [d25 EXCEPT !.pc = "panicked"]
    /\ D25Others

D25Next ==
    \/ D25Encode \/ D25EncodePanics \/ D25Decode \/ D25DecodePanics
    \/ D25AddNumber \/ D25AddPanics \/ D25Return \/ D25ReturnPanics

SpecDay25 == D25Init /\ [][D25Next]_vars

\* The number a SNAFU numeral denotes, in unbounded arithmetic: digit i from
\* the right counts DigitFactor * 5^(i-1).
RECURSIVE SnafuValue(_)
SnafuValue(str) ==
    IF str = <<>> THEN 0
    ELSE 5 * SnafuValue(SubSeq(str, 1, Len(str) - 1)) + DigitFactor(str[Len(str)])

IsSnafuString(str) == \A i \in 1..Len(str) : str[i] \in {"2", "1", "0", "-", "="}

\* A SNAFU numeral as convert_decimal_to_snafu is to produce it for n.
IsSnafuNumeralOf(str, n) ==
    /\ str # <<>> /\ IsSnafuString(str)
    /\ (str[1] = "0" => n = 0)
    /\ SnafuValue(str) = n

RECURSIVE SumOfNumerals(_)
SumOfNumerals(lines) ==
    IF lines = <<>> THEN 0
    ELSE SumOfNumerals(SubSeq(lines, 1, Len(lines) - 1)) + SnafuValue(lines[Len(lines)])

\* The largest power of 5 the integer type holds is 5^MaxSnafuDigits (27 for
\* i64), and the largest numeral of that many digits is MaxRoundTrip.
MaxSnafuDigits == CHOOSE k \in 0..IntBits : Pow(5, k) <= MaxInt /\ Pow(5, k + 1) > MaxInt

MaxRoundTrip == (Pow(5, MaxSnafuDigits) - 1) \div 2

RoundTripStarted == d25.snafu_numbers = <<>>

\* C4 as stated: for every non-negative n the round trip returns n and the
\* string is a numeral without a leading 0 (unless n = 0); solve_part1
\* returns the numeral of the sum of its input numerals.
C4_RoundTripEveryNumber ==
    /\ RoundTripStarted =>
        /\ d25.pc \notin {"encode_panicked", "decode_panicked"}
        /\ d25.pc \in {"decode", "round_trip"} => IsSnafuNumeralOf(d25.snafu, d25.value)
        /\ d25.pc = "round_trip" => d25.decoded = d25.value
    /\ (~RoundTripStarted /\ \A i \in 1..Len(d25.snafu_numbers) : IsSnafuString(d25.snafu_numbers[i])) =>
        /\ d25.pc # "panicked"
        /\ d25.pc = "returned" => IsSnafuNumeralOf(d25.result, SumOfNumerals(d25.snafu_numbers))

\* The inputs of solve_part1 whose arithmetic stays inside the integer type:
\* numerals of at most MaxSnafuDigits digits, every running sum in range,
\* and a total from 0 to MaxInt - 2.
Part1InRange(lines) ==
    /\ \A i \in 1..Len(lines) : IsSnafuString(lines[i]) /\ Len(lines[i]) <= MaxSnafuDigits
    /\ \A i \in 1..Len(lines) :
        LET running == SumOfNumerals(SubSeq(lines, 1, i))
        IN  MinInt <= running /\ running <= MaxInt
    /\ 0 <= SumOfNumerals(lines) /\ SumOfNumerals(lines) <= MaxInt - 2

\* C4 amended: the round trip, the digits and the missing leading 0 hold for
\* 0 <= n <= MaxRoundTrip; solve_part1 returns the numeral of the sum for
\* inputs inside the integer type with a non-negative sum.
C4_RoundTripInRange ==
    /\ (RoundTripStarted /\ d25.value <= MaxRoundTrip) =>
        /\ d25.pc \notin {"encode_panicked", "decode_panicked"}
        /\ d25.pc \in {"decode", "round_trip"} => IsSnafuNumeralOf(d25.snafu, d25.value)
        /\ d25.pc = "round_trip" => d25.decoded = d25.value
    /\ (~RoundTripStarted /\ Part1InRange(d25.snafu_numbers)) =>
        /\ d25.pc # "panicked"
        /\ d25.pc = "returned" => IsSnafuNumeralOf(d25.result, SumOfNumerals(d25.snafu_numbers))

\* The largest number of the range has made the round trip.
C4_Witness ==
    /\ RoundTripStarted /\ d25.pc = "round_trip"
    /\ d25.value = MaxRoundTrip /\ Len(d25.snafu) = MaxSnafuDigits
    /\ d25.build = "debug"

---------------------------------------------------------------------------
(* bin/day10.rs: process_input_file *)

\* Largest number of lines of a drawn input file.
MaxLines == 3

\* The lines input files are drawn from, as character sequences: the two
\* instructions (bare and padded), blank lines, and lines that are no
\* instruction.
Day10Lines ==
    {<<"n", "o", "o", "p">>,
     <<" ", "n", "o", "o", "p", " ">>,
     <<"a", "d", "d", "x", " ", "1">>,
     <<"a", "d", "d", "x", " ", "-", "1", "1">>,
     <<>>,
     <<" ">>,
     <<"n", "o", "p">>,
     <<"a", "d", "d", "x">>,
     <<"a", "d", "d", "x", " ", "x">>,
     <<"a", "d", "d", "x", " ", "1", " ", "1">>}

Day10Files == UNION {[1..n -> Day10Lines] : n \in 0..MaxLines}

Digits == {"0", "1", "2", "3", "4", "5", "6", "7", "8", "9"}

\* str::trim: leading and trailing white space removed.
RECURSIVE trim(_)
trim(line) ==
    IF line = <<>> THEN line
    ELSE IF Head(line) = " " THEN trim(Tail(line))
    ELSE IF line[Len(line)] = " " THEN trim(SubSeq(line, 1, Len(line) - 1))
    ELSE line

\* ^noop$
regex_noop(line) == line = <<"n", "o", "o", "p">>

\* ^addx (-?\d+)$
regex_addx(line) ==
    /\ Len(line) > 5
    /\ SubSeq(line, 1, 5) = <<"a", "d", "d", "x", " ">>
    /\ LET digits == IF line[6] = "-" THEN SubSeq(line, 7, Len(line))
                     ELSE SubSeq(line, 6, Len(line))
       IN  digits # <<>> /\ \A i \in 1..Len(digits) : digits[i] \in Digits

DigitValue(c) == CHOOSE v \in 0..9 : <<"0", "1", "2", "3", "4", "5", "6", "7", "8", "9">>[v + 1] = c

RECURSIVE ParseNat(_)
ParseNat(digits) ==
    IF digits = <<>> THEN 0
    ELSE 10 * ParseNat(SubSeq(digits, 1, Len(digits) - 1)) + DigitValue(digits[Len(digits)])

\* caps[1].parse::<i64>() of a line regex_addx matches.
AddxValue(line) ==
    IF line[6] = "-" THEN 0 - ParseNat(SubSeq(line, 7, Len(line)))
    ELSE ParseNat(SubSeq(line, 6, Len(line)))

Noop == [instr |-> "Noop", value |-> 0]

Addx(value) == [instr |-> "Addx", value |-> value]

ParseInit ==
    /\ parse \in [pc : {"lines"}, raw_input : Day10Files, cursor : {1}, output : {<<>>}]
    /\ geo = Idle /\ d17 = Idle /\ d21 = Idle /\ d25 = Idle /\ d23 = Idle
    /\ d24 = Idle /\ d18 = Idle /\ d16 = Idle /\ d19 = Idle /\ d11 = Idle /\ wild = Idle
    /\ d06 = Idle /\ d15 = Idle /\ main = Idle

ParseOthers == UNCHANGED <<geo, d17, d21, d25, d23, d24, d18, d16, d19, d11, wild, d06, d15, main>>

ParseAtLine == parse.pc = "lines" /\ parse.cursor <= Len(parse.raw_input)

ParseLine == trim(parse.raw_input[parse.cursor])

\* if line.is_empty() { continue; }
ParseBlankLine ==
    /\ ParseAtLine
    /\ ParseLine = <<>>
    /\ parse' = [parse EXCEPT !.cursor = @ + 1]
    /\ ParseOthers

ParseNoop ==
    /\ ParseAtLine
    /\ ParseLine # <<>>
    /\ regex_noop(ParseLine)
    /\ parse' = [parse EXCEPT !.cursor = @ + 1, !.output = Append(@, Noop)]
    /\ ParseOthers

ParseAddx ==
    /\ ParseAtLine
    /\ ParseLine # <<>>
    /\ ~regex_noop(ParseLine)
    /\ regex_addx(ParseLine)
    /\ parse' = [parse EXCEPT !.cursor = @ + 1, !.output = Append(@, Addx(AddxValue(ParseLine)))]
    /\ ParseOthers

\* Neither regex matches: the if / else if has no else, and the loop goes on.
ParseNoMatch ==
    /\ ParseAtLine
    /\ ParseLine # <<>>
    /\ ~regex_noop(ParseLine)
    /\ ~regex_addx(ParseLine)
    /\ parse' = [parse EXCEPT !.cursor = @ + 1]
    /\ ParseOthers

\* The loop is over: output is returned.
ParseReturn ==
    /\ parse.pc = "lines"
    /\ parse.cursor > Len(parse.raw_input)
    /\ parse' = [parse EXCEPT !.pc = "returned"]
    /\ ParseOthers

ParseNext == ParseBlankLine \/ ParseNoop \/ ParseAddx \/ ParseNoMatch \/ ParseReturn

SpecParse == ParseInit /\ [][ParseNext]_vars

\* The format Day 10 expects of a line: noop, or addx and a number.
Day10WellFormed(line) ==
    \/ line = <<"n", "o", "o", "p">>
    \/ /\ Len(line) > 5
       /\ SubSeq(line, 1, 5) = <<"a", "d", "d", "x", " ">>
       /\ \E first \in {6, 7} :
            /\ first <= Len(line)
            /\ first = 7 => line[6] = "-"
            /\ \A i \in first..Len(line) : line[i] \in Digits

\* C5: a parser that has read past a line has found it blank or of the
\* expected format (any other line aborts the run); no malformed line is
\* skipped and the parse then continued with the lines after it.
C5_MalformedLineAborts ==
    parse.pc \in {"lines", "returned"} =>
        \A i \in 1..Len(parse.raw_input) :
            i < parse.cursor =>
                \/ trim(parse.raw_input[i]) = <<>>
                \/ Day10WellFormed(trim(parse.raw_input[i]))

---------------------------------------------------------------------------
(* bin/day23.rs: Unstable Diffusion *)

\* The elves of a drawn input stand in a square of this side ...
GridSide == 3

\* ... and are at most this many.
MaxElves == 4

\* solve_part2's loop is followed for at most this many rounds.
MaxRounds == 14

peek_move_point(p, dx, dy) == Point2D(p.x + dx, p.y + dy)

check_move_in_direction(p, dirn) ==
    CASE dirn = "North" -> peek_move_point(p, 0, -1)
      [] dirn = "NorthEast" -> peek_move_point(p, 1, -1)
      [] dirn = "East" -> peek_move_point(p, 1, 0)
      [] dirn = "SouthEast" -> peek_move_point(p, 1, 1)
      [] dirn = "South" -> peek_move_point(p, 0, 1)
      [] dirn = "SouthWest" -> peek_move_point(p, -1, 1)
      [] dirn = "West" -> peek_move_point(p, -1, 0)
      [] dirn = "NorthWest" -> peek_move_point(p, -1, -1)

get_surrounding_points(p) ==
    {Point2D(p.x, p.y - 1), Point2D(p.x + 1, p.y - 1), Point2D(p.x + 1, p.y),
     Point2D(p.x + 1, p.y + 1), Point2D(p.x, p.y + 1), Point2D(p.x - 1, p.y + 1),
     Point2D(p.x - 1, p.y), Point2D(p.x - 1, p.y - 1)}

\* The four move checks answer Some(direction) or "None".
check_for_north_move(elf_loc, elves) ==
    IF \E dirn \in {"NorthEast", "North", "NorthWest"} :
            check_move_in_direction(elf_loc, dirn) \in elves
    THEN "None" ELSE "North"

check_for_south_move(elf_loc, elves) ==
    IF \E dirn \in {"SouthEast", "South", "SouthWest"} :
            check_move_in_direction(elf_loc, dirn) \in elves
    THEN "None" ELSE "South"

check_for_west_move(elf_loc, elves) ==
    IF \E dirn \in {"NorthWest", "West", "SouthWest"} :
            check_move_in_direction(elf_loc, dirn) \in elves
    THEN "None" ELSE "West"

check_for_east_move(elf_loc, elves) ==
    IF \E dirn \in {"NorthEast", "East", "SouthEast"} :
            check_move_in_direction(elf_loc, dirn) \in elves
    THEN "None" ELSE "East"

\* MOVE_CHECKS[k], k from 0.
MOVE_CHECKS(k, elf_loc, elves) ==
    CASE k = 0 -> check_for_north_move(elf_loc, elves)
      [] k = 1 -> check_for_south_move(elf_loc, elves)
      [] k = 2 -> check_for_west_move(elf_loc, elves)
      [] k = 3 -> check_for_east_move(elf_loc, elves)

\* The elf has no elf around it (lines 109-115).
StaysAlone(old_loc, elf_locs) ==
    ~\E s_loc \in get_surrounding_points(old_loc) : s_loc \in elf_locs

\* The first check of the round's order that allows a move, or "None"
\* (lines 128-145).
FirstValidMove(old_loc, elf_locs, round) ==
    LET i == round % 4
        valid == {di \in 0..3 : MOVE_CHECKS((i + di) % 4, old_loc, elf_locs) # "None"}
    IN  IF valid = {} THEN "None"
        ELSE MOVE_CHECKS((i + SetMin(valid)) % 4, old_loc, elf_locs)

\* The key under which the elf is entered into new_elf_locations.
ProposedLocation(old_loc, elf_locs, round) ==
    IF StaysAlone(old_loc, elf_locs) THEN old_loc
    ELSE LET dirn == FirstValidMove(old_loc, elf_locs, round)
         IN  CASE dirn = "North" -> peek_move_point(old_loc, 0, -1)
               [] dirn = "South" -> peek_move_point(old_loc, 0, 1)
               [] dirn = "West" -> peek_move_point(old_loc, -1, 0)
               [] dirn = "East" -> peek_move_point(old_loc, 1, 0)
               [] dirn = "None" -> old_loc

\* A count that leaves out the elves that are alone.
NoMoveOnlyWhenBlocked(old_loc, elf_locs, round) ==
    /\ ~StaysAlone(old_loc, elf_locs)
    /\ FirstValidMove(old_loc, elf_locs, round) = "None"

\* The elves counted as not moving: alone (line 118) or without a valid
\* move (line 148).
CountsAsNoMove(old_loc, elf_locs, round) ==
    \/ StaysAlone(old_loc, elf_locs)
    \/ FirstValidMove(old_loc, elf_locs, round) = "None"

no_move_count(elf_locs, round) ==
    Cardinality({old_loc \in elf_locs : CountsAsNoMove(old_loc, elf_locs, round)})

\* new_elf_locations[new_loc]: the elves entered under new_loc.
old_locs_of(new_loc, elf_locs, round) ==
    {old_loc \in elf_locs : ProposedLocation(old_loc, elf_locs, round) = new_loc}

\* The elves after the update loop (lines 158-165): a location one elf
\* proposed is taken, elves that proposed the same location stay.
UpdatedElves(elf_locs, round) ==
    UNION {LET old_locs == old_locs_of(new_loc, elf_locs, round)
           IN  IF Cardinality(old_locs) = 1 THEN {new_loc} ELSE old_locs :
           new_loc \in {ProposedLocation(old_loc, elf_locs, round) : old_loc \in elf_locs}}

\* conduct_diffusion_round: the new elf set and the value returned.
conduct_diffusion_round(elf_locs, round) ==
    LET updated == UpdatedElves(elf_locs, round)
    IN  [elf_locs |-> updated,
         none_moved |-> no_move_count(elf_locs, round) = Cardinality(updated)]

Day23Inputs ==
    {elves \in SUBSET {Point2D(x, y) : x \in 0..(GridSide - 1), y \in 0..(GridSide - 1)} :
        Cardinality(elves) <= MaxElves}

\* trace holds start_elves and the elf set after each round conducted.
D23Init ==
    /\ \E start_elves \in Day23Inputs :
        d23 = [pc |-> "loop", start_elves |-> start_elves, elves |-> start_elves, round |-> 0,
               none_moved |-> FALSE, trace |-> <<>>, result |-> 0]
    /\ geo = Idle /\ d17 = Idle /\ d21 = Idle /\ d25 = Idle /\ parse = Idle
    /\ d24 = Idle /\ d18 = Idle /\ d16 = Idle /\ d19 = Idle /\ d11 = Idle /\ wild = Idle
    /\ d06 = Idle /\ d15 = Idle /\ main = Idle

D23Others == UNCHANGED <<geo, d17, d21, d25, parse, d24, d18, d16, d19, d11, wild, d06, d15, main>>

\* A round of solve_part2's loop in which some elf is reported to move.
D23RoundMoves ==
    /\ d23.pc = "loop"
    /\ d23.round < MaxRounds
    /\ LET r == conduct_diffusion_round(d23.elves, d23.round)
       IN  /\ ~r.none_moved
           /\ d23' = [d23 EXCEPT !.elves = r.elf_locs, !.none_moved = FALSE,
                        !.trace = Append(@, d23.elves), !.round = @ + 1]
    /\ D23Others

\* The round in which conduct_diffusion_round returns true: round + 1 is returned.
D23RoundStill ==
    /\ d23.pc = "loop"
    /\ d23.round < MaxRounds
    /\ LET r == conduct_diffusion_round(d23.elves, d23.round)
       IN  /\ r.none_moved
           /\ d23' = [d23 EXCEPT !.pc = "returned", !.elves = r.elf_locs, !.none_moved = TRUE,
                        !.trace = Append(@, d23.elves), !.result = d23.round + 1]
    /\ D23Others

D23Next == D23RoundMoves \/ D23RoundStill

SpecDay23 == D23Init /\ [][D23Next]_vars

\* The elf set before round k (1-based) and after it.
BeforeRound(k) == d23.trace[k]

AfterRound(k) == IF k < Len(d23.trace) THEN d23.trace[k + 1] ELSE d23.elves

\* C6: the round just conducted returned true exactly when it left the elf
\* set as it was, and what solve_part2 returns is the number of the first
\* round that left the set as it was.
C6_TrueIffNoElfMoved ==
    /\ Len(d23.trace) > 0 =>
        (d23.none_moved <=> AfterRound(Len(d23.trace)) = BeforeRound(Len(d23.trace)))
    /\ d23.pc = "returned" =>
        /\ d23.result \in 1..Len(d23.trace)
        /\ AfterRound(d23.result) = BeforeRound(d23.result)
        /\ \A k \in 1..(d23.result - 1) : AfterRound(k) # BeforeRound(k)

\* solve_part2 has returned after rounds in which elves proposed the same
\* location and stayed, and in which elves moved.
C6_Witness ==
    /\ d23.pc = "returned" /\ d23.result > 2
    /\ \E k \in 1..(d23.result - 1) :
        \E e \in BeforeRound(k) : e \in AfterRound(k) /\ ~StaysAlone(e, BeforeRound(k))

(***************************************************************************)
(* bin/day24.rs: Blizzard Basin *)
(***************************************************************************)
\* The basin inside the walls is BasinWidth by BasinHeight cells and holds at
\* most MaxBlizzards blizzards; the search is followed up to MaxMinutes.
BasinWidth == 2

BasinHeight == 2

MaxBlizzards == 2

MaxMinutes == 8

CardinalDirections == {"North", "East", "South", "West"}

MinMax2D(min_x, max_x, min_y, max_y) ==
    [min_x |-> min_x, max_x |-> max_x, min_y |-> min_y, max_y |-> max_y]

contains_point(self, point) ==
    /\ self.min_x <= point.x
    /\ self.max_x >= point.x
    /\ self.min_y <= point.y
    /\ self.max_y >= point.y

\* A blizzard map is the set of [loc, dirn] of its blizzards: the entries of
\* BlizzardState.map, one per element of each Vec.
BlizzardCells ==
    {[loc |-> Point2D(x, y), dirn |-> dirn] :
        x \in 1..BasinWidth, y \in 1..BasinHeight, dirn \in CardinalDirections}

\* The maps of at most k blizzards, one per cell at most, as read from a file.
RECURSIVE BlizzardMaps(_)
BlizzardMaps(k) ==
    IF k = 0 THEN {{}}
    ELSE LET fewer == BlizzardMaps(k - 1)
         IN  fewer \cup UNION {{map \cup {bliz} :
                                   bliz \in {b \in BlizzardCells : b.loc \notin {c.loc : c \in map}}} :
                               map \in fewer}

\* What process_input_file returns for a walled map with the opening of the
\* top row at its left end and the opening of the bottom row at its right
\* end: the two openings, the area inside the walls, the blizzards.
Day24Inputs ==
    {[start_loc |-> Point2D(1, 0), end_loc |-> Point2D(BasinWidth, BasinHeight + 1),
      minmax |-> MinMax2D(1, (BasinWidth + 1) - 1, 1, (BasinHeight + 1) - 1),
      map |-> map] : map \in BlizzardMaps(MaxBlizzards)}

blizzard_locs(map) == {bliz.loc : bliz \in map}

\* The blizzard moved one cell and wrapped at the walls (lines 178-207).
MovedBlizzard(bliz, minmax) ==
    LET loc == bliz.loc
    IN  CASE bliz.dirn = "North" ->
                LET temp_loc == peek_move_point(loc, 0, -1)
                IN  IF temp_loc.y < minmax.min_y THEN Point2D(temp_loc.x, minmax.max_y) ELSE temp_loc
          [] bliz.dirn = "East" ->
                LET temp_loc == peek_move_point(loc, 1, 0)
                IN  IF temp_loc.x > minmax.max_x THEN Point2D(minmax.min_x, temp_loc.y) ELSE temp_loc
          [] bliz.dirn = "South" ->
                LET temp_loc == peek_move_point(loc, 0, 1)
                IN  IF temp_loc.y > minmax.max_y THEN Point2D(temp_loc.x, minmax.min_y) ELSE temp_loc
          [] bliz.dirn = "West" ->
                LET temp_loc == peek_move_point(loc, -1, 0)
                IN  IF temp_loc.x < minmax.min_x THEN Point2D(minmax.max_x, temp_loc.y) ELSE temp_loc

update_blizzard_state(blizzard_state, minmax) ==
    [minutes |-> blizzard_state.minutes + 1,
     map |-> {[loc |-> MovedBlizzard(bliz, minmax), dirn |-> bliz.dirn] : bliz \in blizzard_state.map}]

\* The moves tried without the last one, waiting.
MovesWithoutWait == <<<<0, -1>>, <<1, 0>>, <<0, 1>>, <<-1, 0>>>>

\* The (dx, dy) of line 155, in its order.
Moves == <<<<0, -1>>, <<1, 0>>, <<0, 1>>, <<-1, 0>>, <<0, 0>>>>

RECURSIVE NextLocationsLoop(_, _, _, _, _)
NextLocationsLoop(k, loc, minmax, blizzard_state, wall_openings) ==
    IF k > Len(Moves) THEN <<>>
    ELSE LET next_loc == peek_move_point(loc, Moves[k][1], Moves[k][2])
             rest == NextLocationsLoop(k + 1, loc, minmax, blizzard_state, wall_openings)
         IN  IF next_loc \in wall_openings THEN <<next_loc>> \o rest
             ELSE IF ~contains_point(minmax, next_loc) THEN rest
             ELSE IF next_loc \in blizzard_locs(blizzard_state.map) THEN rest
             ELSE <<next_loc>> \o rest

get_valid_next_locations(loc, minmax, blizzard_state, wall_openings) ==
    NextLocationsLoop(1, loc, minmax, blizzard_state, wall_openings)

\* The for loop of lines 127-137 when the end location is not among next_locs.
RECURSIVE VisitLoop(_, _, _, _)
VisitLoop(next_locs, minutes, visit_queue, visited) ==
    IF next_locs = <<>> THEN [visit_queue |-> visit_queue, visited |-> visited]
    ELSE LET next_visit == [minutes |-> minutes + 1, loc |-> Head(next_locs)]
         IN  IF next_visit \in visited
             THEN VisitLoop(Tail(next_locs), minutes, visit_queue, visited)
             ELSE VisitLoop(Tail(next_locs), minutes, Append(visit_queue, next_visit),
                            visited \cup {next_visit})

InSeq(e, seq) == \E k \in 1..Len(seq) : seq[k] = e

D24Init ==
    /\ \E input \in Day24Inputs :
        d24 = [pc |-> "loop", input |-> input,
               wall_openings |-> {input.start_loc, input.end_loc},
               visit_queue |-> <<[minutes |-> 0, loc |-> input.start_loc]>>,
               blizzard_state |-> [minutes |-> 0, map |-> input.map],
               visited |-> {[minutes |-> 0, loc |-> input.start_loc]},
               result |-> 0]
    /\ geo = Idle /\ d17 = Idle /\ d21 = Idle /\ d25 = Idle /\ parse = Idle
    /\ d23 = Idle /\ d18 = Idle /\ d16 = Idle /\ d19 = Idle /\ d11 = Idle /\ wild = Idle
    /\ d06 = Idle /\ d15 = Idle /\ main = Idle

D24Others == UNCHANGED <<geo, d17, d21, d25, parse, d23, d18, d16, d19, d11, wild, d06, d15, main>>

\* The blizzard state used for the visit popped at the given minute (lines 124-126).
StateForVisit(minutes) ==
    IF d24.blizzard_state.minutes = minutes
    THEN update_blizzard_state(d24.blizzard_state, d24.input.minmax)
    ELSE d24.blizzard_state

\* An iteration of the while loop that does not reach the end location.
D24Visit ==
    /\ d24.pc = "loop"
    /\ d24.visit_queue # <<>>
    /\ LET minutes == Head(d24.visit_queue).minutes
           loc == Head(d24.visit_queue).loc
           blizzard_state == StateForVisit(minutes)
           next_locs == get_valid_next_locations(loc, d24.input.minmax, blizzard_state,
                                                 d24.wall_openings)
           after == VisitLoop(next_locs, minutes, Tail(d24.visit_queue), d24.visited)
       IN  /\ minutes < MaxMinutes
           /\ ~InSeq(d24.input.end_loc, next_locs)
           /\ d24' = [d24 EXCEPT !.blizzard_state = blizzard_state,
                                 !.visit_queue = after.visit_queue,
                                 !.visited = after.visited]
    /\ D24Others

\* The iteration in which the end location is a next location: minutes + 1
\* is returned.
D24Reached ==
    /\ d24.pc = "loop"
    /\ d24.visit_queue # <<>>
    /\ LET minutes == Head(d24.visit_queue).minutes
           loc == Head(d24.visit_queue).loc
           blizzard_state == StateForVisit(minutes)
           next_locs == get_valid_next_locations(loc, d24.input.minmax, blizzard_state,
                                                 d24.wall_openings)
       IN  /\ minutes < MaxMinutes
           /\ InSeq(d24.input.end_loc, next_locs)
           /\ d24' = [d24 EXCEPT !.pc = "returned", !.blizzard_state = blizzard_state,
                                 !.visit_queue = Tail(d24.visit_queue),
                                 !.result = minutes + 1]
    /\ D24Others

D24Next == D24Visit \/ D24Reached

SpecDay24 == D24Init /\ [][D24Next]_vars

\* Where the blizzard of the input is after t minutes: it advances one cell a
\* minute along its row or column and re-enters at the opposite wall.
BlizzardAfter(bliz, t) ==
    LET mm == d24.input.minmax
        w == mm.max_x - mm.min_x + 1
        h == mm.max_y - mm.min_y + 1
        x == bliz.loc.x - mm.min_x
        y == bliz.loc.y - mm.min_y
    IN  CASE bliz.dirn = "North" -> Point2D(bliz.loc.x, mm.min_y + ((y - t) % h))
          [] bliz.dirn = "South" -> Point2D(bliz.loc.x, mm.min_y + ((y + t) % h))
          [] bliz.dirn = "East" -> Point2D(mm.min_x + ((x + t) % w), bliz.loc.y)
          [] bliz.dirn = "West" -> Point2D(mm.min_x + ((x - t) % w), bliz.loc.y)

\* The cells the expedition may occupy at minute t: the two openings, and
\* the cells inside the walls that hold no blizzard at minute t.
FreeAt(t) ==
    {d24.input.start_loc, d24.input.end_loc} \cup
    ({Point2D(x, y) : x \in d24.input.minmax.min_x..d24.input.minmax.max_x,
                      y \in d24.input.minmax.min_y..d24.input.minmax.max_y}
        \ {BlizzardAfter(bliz, t) : bliz \in d24.input.map})

OneStep(p) ==
    {p, Point2D(p.x, p.y - 1), Point2D(p.x, p.y + 1), Point2D(p.x - 1, p.y), Point2D(p.x + 1, p.y)}

\* The cells the expedition can be in at minute t.
RECURSIVE ReachableAt(_)
ReachableAt(t) ==
    IF t = 0 THEN {d24.input.start_loc}
    ELSE UNION {OneStep(p) : p \in ReachableAt(t - 1)} \cap FreeAt(t)

\* C7: what solve_part1 returns is the fewest minutes in which the end
\* location can be reached by moving one cell or waiting each minute without
\* sharing a cell with a blizzard, and while it has not returned the end
\* location cannot be reached by the minute of the next visit.
C7_FewestMinutes ==
    /\ d24.pc = "returned" =>
        /\ d24.input.end_loc \in ReachableAt(d24.result)
        /\ \A t \in 0..(d24.result - 1) : d24.input.end_loc \notin ReachableAt(t)
    /\ (d24.pc = "loop" /\ d24.visit_queue # <<>>) =>
        \A t \in 0..Head(d24.visit_queue).minutes : d24.input.end_loc \notin ReachableAt(t)

\* solve_part1 has returned for a basin with blizzards in which the way took
\* longer than the number of cells between the openings (the expedition
\* waited or stepped back for a blizzard) and a blizzard is behind the cell
\* it started from, having re-entered at the opposite wall.
C7_Witness ==
    /\ d24.pc = "returned"
    /\ d24.input.map # {}
    /\ d24.result > Abs(d24.input.end_loc.x - d24.input.start_loc.x)
                    + Abs(d24.input.end_loc.y - d24.input.start_loc.y)
    /\ \E bliz \in d24.blizzard_state.map : \E before \in d24.input.map :
        /\ before.dirn = bliz.dirn
        /\ \/ bliz.dirn = "East" /\ before.loc.y = bliz.loc.y /\ bliz.loc.x < before.loc.x
           \/ bliz.dirn = "West" /\ before.loc.y = bliz.loc.y /\ bliz.loc.x > before.loc.x
           \/ bliz.dirn = "South" /\ before.loc.x = bliz.loc.x /\ bliz.loc.y < before.loc.y
           \/ bliz.dirn = "North" /\ before.loc.x = bliz.loc.x /\ bliz.loc.y > before.loc.y

(***************************************************************************)
(* bin/day18.rs: Boiling Boulders *)
(***************************************************************************)
\* The cubes of an input are drawn from the first DropletCells cells of
\* CandidateCells, moved along the x-axis by one of Origins. Coordinates are
\* i64, modelled at the width IntBits.
DropletCells == 8

Point3D(x, y, z) == [x |-> x, y |-> y, z |-> z]

\* The six cells around a cell, the cell, and cells beside them.
CandidateCells ==
    <<Point3D(-1, 0, 0), Point3D(1, 0, 0), Point3D(0, -1, 0), Point3D(0, 1, 0),
      Point3D(0, 0, -1), Point3D(0, 0, 1), Point3D(0, 0, 0), Point3D(1, 1, 0),
      Point3D(1, 1, 1), Point3D(-1, -1, -1)>>

\* Droplets about the origin and droplets that touch the ends of the integer range.
Origins == {0, MinInt + 1, MinInt + 2, MaxInt - 1, MaxInt - 2}

Droplet(chosen, origin) ==
    {Point3D(CandidateCells[k].x + origin, CandidateCells[k].y, CandidateCells[k].z) : k \in chosen}

\* Away from the ends of the range the two builds compute the same and the
\* debug build is followed; at the ends both are.
Day18Inputs ==
    {[observed_cubes |-> Droplet(chosen, origin), build |-> build] :
        chosen \in SUBSET (1..DropletCells), origin \in Origins, build \in {"debug", "release"}}
    \ {[observed_cubes |-> Droplet(chosen, 0), build |-> "release"] :
        chosen \in SUBSET (1..DropletCells)}

\* Point3D::check_move_point: the point moved by the deltas.
Point3D_check_move_point(self, dx, dy, dz, build) ==
    LET x == Checked(self.x + dx, build)
        y == Checked(self.y + dy, build)
        z == Checked(self.z + dz, build)
    IN  [panicked |-> x.panicked \/ y.panicked \/ z.panicked,
         value |-> Point3D(x.value, y.value, z.value)]

\* The deltas of get_adjacent_cubes, in its order.
AdjacentDeltas ==
    <<<<-1, 0, 0>>, <<1, 0, 0>>, <<0, -1, 0>>, <<0, 1, 0>>, <<0, 0, -1>>, <<0, 0, 1>>>>

get_adjacent_cubes(cube, build) ==
    LET moved == [k \in 1..Len(AdjacentDeltas) |->
                    Point3D_check_move_point(cube, AdjacentDeltas[k][1], AdjacentDeltas[k][2],
                                             AdjacentDeltas[k][3], build)]
    IN  [panicked |-> \E k \in 1..Len(AdjacentDeltas) : moved[k].panicked,
         value |-> [k \in 1..Len(AdjacentDeltas) |-> moved[k].value]]

MinMax3D(min_x, max_x, min_y, max_y, min_z, max_z) ==
    [min_x |-> min_x, max_x |-> max_x, min_y |-> min_y, max_y |-> max_y,
     min_z |-> min_z, max_z |-> max_z]

check_if_adjacent_cube_is_out_of_bounds(adj_cube, minmax) ==
    \/ adj_cube.x < minmax.min_x
    \/ adj_cube.x > minmax.max_x
    \/ adj_cube.y < minmax.min_y
    \/ adj_cube.y > minmax.max_y
    \/ adj_cube.z < minmax.min_z
    \/ adj_cube.z > minmax.max_z

\* The volume whose faces are the outermost cubes.
calculate_minmax_without_margin(observed_cubes, build) ==
    IF observed_cubes = {} THEN [panicked |-> TRUE, value |-> 0]
    ELSE [panicked |-> FALSE,
          value |-> MinMax3D(SetMin({c.x : c \in observed_cubes}),
                             SetMax({c.x : c \in observed_cubes}),
                             SetMin({c.y : c \in observed_cubes}),
                             SetMax({c.y : c \in observed_cubes}),
                             SetMin({c.z : c \in observed_cubes}),
                             SetMax({c.z : c \in observed_cubes}))]

\* min() and max() of an empty iterator are None and unwrap() panics.
calculate_minmax_for_observed_cubes(observed_cubes, build) ==
    IF observed_cubes = {} THEN [panicked |-> TRUE, value |-> 0]
    ELSE LET min_x == Checked(SetMin({c.x : c \in observed_cubes}) - 1, build)
             max_x == Checked(SetMax({c.x : c \in observed_cubes}) + 1, build)
             min_y == Checked(SetMin({c.y : c \in observed_cubes}) - 1, build)
             max_y == Checked(SetMax({c.y : c \in observed_cubes}) + 1, build)
             min_z == Checked(SetMin({c.z : c \in observed_cubes}) - 1, build)
             max_z == Checked(SetMax({c.z : c \in observed_cubes}) + 1, build)
         IN  [panicked |-> \/ min_x.panicked \/ max_x.panicked \/ min_y.panicked
                           \/ max_y.panicked \/ min_z.panicked \/ max_z.panicked,
              value |-> MinMax3D(min_x.value, max_x.value, min_y.value, max_y.value,
                                 min_z.value, max_z.value)]

\* The for loop of lines 100-115 from the k-th adjacent cube on.
RECURSIVE AdjacentLoop(_, _, _, _, _, _, _)
AdjacentLoop(adj, k, observed_cubes, minmax, visit_queue, visited, external_surface_area) ==
    IF k > Len(adj)
    THEN [visit_queue |-> visit_queue, visited |-> visited,
          external_surface_area |-> external_surface_area]
    ELSE IF adj[k] \in visited \/ check_if_adjacent_cube_is_out_of_bounds(adj[k], minmax)
    THEN AdjacentLoop(adj, k + 1, observed_cubes, minmax, visit_queue, visited,
                      external_surface_area)
    ELSE IF adj[k] \in observed_cubes
    THEN AdjacentLoop(adj, k + 1, observed_cubes, minmax, visit_queue, visited,
                      external_surface_area + 1)
    ELSE AdjacentLoop(adj, k + 1, observed_cubes, minmax, Append(visit_queue, adj[k]),
                      visited \cup {adj[k]}, external_surface_area)

\* The while loop of lines 97-116.
RECURSIVE SearchLoop(_, _, _, _, _, _)
SearchLoop(observed_cubes, minmax, build, visit_queue, visited, external_surface_area) ==
    IF visit_queue = <<>> THEN [panicked |-> FALSE, value |-> external_surface_area]
    ELSE LET adj == get_adjacent_cubes(Head(visit_queue), build)
         IN  IF adj.panicked THEN [panicked |-> TRUE, value |-> 0]
             ELSE LET after == AdjacentLoop(adj.value, 1, observed_cubes, minmax,
                                            Tail(visit_queue), visited, external_surface_area)
                  IN  SearchLoop(observed_cubes, minmax, build, after.visit_queue,
                                 after.visited, after.external_surface_area)

\* calculate_external_surface_area from line 89 on.
SearchFrom(observed_cubes, minmax, build) ==
    LET start_cube == Point3D(minmax.min_x, minmax.min_y, minmax.min_z)
    IN  SearchLoop(observed_cubes, minmax, build, <<start_cube>>, {start_cube}, 0)

D18Init ==
    /\ \E input \in Day18Inputs :
        d18 = [pc |-> "called", build |-> input.build, observed_cubes |-> input.observed_cubes,
               minmax |-> MinMax3D(0, 0, 0, 0, 0, 0), result |-> 0]
    /\ geo = Idle /\ d17 = Idle /\ d21 = Idle /\ d25 = Idle /\ parse = Idle
    /\ d23 = Idle /\ d24 = Idle /\ d16 = Idle /\ d19 = Idle /\ d11 = Idle /\ wild = Idle
    /\ d06 = Idle /\ d15 = Idle /\ main = Idle

D18Others == UNCHANGED <<geo, d17, d21, d25, parse, d23, d24, d16, d19, d11, wild, d06, d15, main>>

\* Line 88.
D18MinMax ==
    /\ d18.pc = "called"
    /\ LET minmax == calculate_minmax_for_observed_cubes(d18.observed_cubes, d18.build)
       IN  /\ ~minmax.panicked
           /\ d18' = [d18 EXCEPT !.pc = "search", !.minmax = minmax.value]
    /\ D18Others

D18MinMaxPanics ==
    /\ d18.pc = "called"
    /\ calculate_minmax_for_observed_cubes(d18.observed_cubes, d18.build).panicked
    /\ d18' = [d18 EXCEPT !.pc = "panicked"]
    /\ D18Others

\* Lines 89-117: the search returns the area, or panics on an overflow.
D18Search ==
    /\ d18.pc = "search"
    /\ \E area \in {SearchFrom(d18.observed_cubes, d18.minmax, d18.build)} :
        d18' = IF area.panicked THEN [d18 EXCEPT !.pc = "panicked"]
               ELSE [d18 EXCEPT !.pc = "returned", !.result = area.value]
    /\ D18Others

D18Next == D18MinMax \/ D18MinMaxPanics \/ D18Search

SpecDay18 == D18Init /\ [][D18Next]_vars

\* The cells that share a face with the cell.
FaceNeighbours(c) ==
    {Point3D(c.x - 1, c.y, c.z), Point3D(c.x + 1, c.y, c.z), Point3D(c.x, c.y - 1, c.z),
     Point3D(c.x, c.y + 1, c.z), Point3D(c.x, c.y, c.z - 1), Point3D(c.x, c.y, c.z + 1)}

\* The cells within the given distance of the droplet's extent on every axis.
Surroundings(cubes, margin) ==
    {Point3D(x, y, z) :
        x \in (SetMin({c.x : c \in cubes}) - margin)..(SetMax({c.x : c \in cubes}) + margin),
        y \in (SetMin({c.y : c \in cubes}) - margin)..(SetMax({c.y : c \in cubes}) + margin),
        z \in (SetMin({c.z : c \in cubes}) - margin)..(SetMax({c.z : c \in cubes}) + margin)}

\* The empty cells joined to the cells of outside through face-adjacent
\* empty cells of region.
RECURSIVE JoinedTo(_, _, _)
JoinedTo(outside, cubes, region) ==
    LET more == {c \in region \ (cubes \cup outside) : FaceNeighbours(c) \cap outside # {}}
    IN  IF more = {} THEN outside ELSE JoinedTo(outside \cup more, cubes, region)

\* The empty cells near the droplet that are connected to the outside: every
\* cell two away from the droplet's extent is outside it.
ExteriorCells(cubes) ==
    JoinedTo(Surroundings(cubes, 2) \ Surroundings(cubes, 1), cubes, Surroundings(cubes, 2))

\* The cube faces that touch an exterior cell, each named by its cube and
\* the cell it touches.
ExteriorFaces(cubes) ==
    IF cubes = {} THEN {}
    ELSE LET exterior == ExteriorCells(cubes)
         IN  UNION {{<<c, air>> : air \in FaceNeighbours(c) \cap exterior} : c \in cubes}

D18Done == d18.pc \in {"returned", "panicked"}

\* C8 as stated: for every finite set of cubes the call returns the number
\* of cube faces that touch an empty cell connected to the outside.
C8_ExternalAreaEverySet ==
    D18Done => (d18.pc = "returned" /\ d18.result = Cardinality(ExteriorFaces(d18.observed_cubes)))

\* The sets for which no step of the arithmetic overflows.
Day18InRange(cubes) ==
    /\ cubes # {}
    /\ \A c \in cubes : \A v \in {c.x, c.y, c.z} : MinInt + 2 <= v /\ v <= MaxInt - 2

\* C8: for every non-empty set of cubes whose coordinates are at least two
\* away from the ends of the integer range, the call returns the number of
\* cube faces that touch an empty cell connected to the outside; faces on an
\* enclosed pocket are not counted.
C8_ExternalAreaInRange ==
    (D18Done /\ Day18InRange(d18.observed_cubes)) =>
        (d18.pc = "returned" /\ d18.result = Cardinality(ExteriorFaces(d18.observed_cubes)))

\* The call has returned for a droplet that encloses an empty cell.
C8_Witness ==
    /\ d18.pc = "returned"
    /\ Day18InRange(d18.observed_cubes)
    /\ d18.result > 0
    /\ LET exterior == ExteriorCells(d18.observed_cubes)
       IN  \E c \in d18.observed_cubes : \E air \in FaceNeighbours(c) :
            air \notin d18.observed_cubes /\ air \notin exterior

(***************************************************************************)
(* bin/day16.rs: Proboscidea Volcanium *)
(***************************************************************************)
PART1_MINUTES == 30

\* Flow rates are drawn from 0..MaxFlowRate; the corridor inputs have
\* CorridorLength valves in a row.
MaxFlowRate == 2

CorridorLength == 24

NetworkValves == <<"AA", "BB", "CC">>

CorridorValves ==
    <<"KA", "KB", "KC", "KD", "KE", "KF", "KG", "KH", "KI", "KJ", "KK", "KL", "KM",
      "KN", "KO", "KP", "KQ", "KR", "KS", "KT", "KU", "KV", "KW", "KX", "KY", "KZ">>

ValveNames == NetworkValves \o CorridorValves

SeqRange(seq) == {seq[k] : k \in 1..Len(seq)}

\* The valves of the set in the order of ValveNames.
InNameOrder(valves) == SelectSeq(ValveNames, LAMBDA v : v \in valves)

\* Files that describe the valves of NetworkValves: every valve has tunnels
\* to some of the other valves, one-way or two-way.
NetworkInputs ==
    LET valves == SeqRange(NetworkValves)
    IN  {[valve_flow_rates |-> rates, valve_connections |-> [v \in valves |-> InNameOrder(to[v])]] :
            rates \in [valves -> 0..MaxFlowRate],
            to \in {t \in [valves -> SUBSET valves] : \A v \in valves : t[v] # {} /\ v \notin t[v]}}

\* The k-th valve of a corridor in which AA is the aa-th.
CorridorValve(k, aa) == IF k = aa THEN "AA" ELSE CorridorValves[k]

\* Files that describe a row of valves joined by two-way tunnels, with flow
\* at the two ends and AA in between.
CorridorInputs ==
    {[valve_flow_rates |->
        [v \in {CorridorValve(k, aa) : k \in 1..CorridorLength} |->
            IF v = CorridorValve(1, aa) THEN first
            ELSE IF v = CorridorValve(CorridorLength, aa) THEN last ELSE 0],
      valve_connections |->
        [v \in {CorridorValve(k, aa) : k \in 1..CorridorLength} |->
            LET k == CHOOSE j \in 1..CorridorLength : CorridorValve(j, aa) = v
            IN  (IF k > 1 THEN <<CorridorValve(k - 1, aa)>> ELSE <<>>)
                \o (IF k < CorridorLength THEN <<CorridorValve(k + 1, aa)>> ELSE <<>>)]] :
        aa \in 2..(CorridorLength - 1), first \in 1..MaxFlowRate, last \in 1..MaxFlowRate}

Day16Inputs == NetworkInputs \cup CorridorInputs

\* HashMap::insert.
Insert(map, key, value) == (key :> value) @@ map

\* The for loop of lines 223-228 from the k-th connection on.
RECURSIVE ConnectionsLoop(_, _, _, _, _)
ConnectionsLoop(connections, k, steps, visit_queue, visited) ==
    IF k > Len(connections) THEN [visit_queue |-> visit_queue, visited |-> visited]
    ELSE IF connections[k] \notin visited
    THEN ConnectionsLoop(connections, k + 1, steps,
                         Append(visit_queue, [steps |-> steps + 1, valve |-> connections[k]]),
                         visited \cup {connections[k]})
    ELSE ConnectionsLoop(connections, k + 1, steps, visit_queue, visited)

\* The while loop of lines 216-229.
RECURSIVE ActivationLoop(_, _, _, _, _)
ActivationLoop(valve_connections, valid_valves, visit_queue, visited, output) ==
    IF visit_queue = <<>> THEN output
    ELSE LET steps == Head(visit_queue).steps
             valve == Head(visit_queue).valve
             after == ConnectionsLoop(valve_connections[valve], 1, steps, Tail(visit_queue), visited)
         IN  ActivationLoop(valve_connections, valid_valves, after.visit_queue, after.visited,
                            IF valve \in valid_valves THEN Insert(output, valve, steps + 1)
                            ELSE output)

get_activation_times_from_start_valve(start_valve, valve_connections, valid_valves) ==
    ActivationLoop(valve_connections, valid_valves, <<[steps |-> 0, valve |-> start_valve]>>,
                   {start_valve}, <<>>)

get_valve_activation_times(valve_flow_rates, valve_connections) ==
    LET valid_valves == {"AA"} \cup {valve \in DOMAIN valve_flow_rates : valve_flow_rates[valve] # 0}
    IN  [valve \in valid_valves |->
            get_activation_times_from_start_valve(valve, valve_connections, valid_valves)]

\* determine_possible_paths_recursive: the paths pushed, or a panic when an
\* activation time is looked up that the map does not hold (lines 260-264).
\* The keys are taken in name order; the paths pushed and whether a lookup
\* fails do not depend on the order.
RECURSIVE determine_possible_paths_recursive(_, _, _)
RECURSIVE NextValveLoop(_, _, _, _)
NextValveLoop(k, current_path, time_remaining, valve_activation_times) ==
    LET keys == InNameOrder(DOMAIN valve_activation_times)
        current_valve == current_path[Len(current_path)]
    IN  IF k > Len(keys) THEN [panicked |-> FALSE, paths |-> {}]
        ELSE IF keys[k] \notin DOMAIN valve_activation_times[current_valve]
        THEN [panicked |-> TRUE, paths |-> {}]
        ELSE LET activation_time == valve_activation_times[current_valve][keys[k]]
                 rest == NextValveLoop(k + 1, current_path, time_remaining, valve_activation_times)
             IN  IF keys[k] \in SeqRange(current_path) \/ activation_time >= time_remaining
                 THEN rest
                 ELSE LET longer == determine_possible_paths_recursive(
                                        Append(current_path, keys[k]),
                                        time_remaining - activation_time, valve_activation_times)
                      IN  [panicked |-> longer.panicked \/ rest.panicked,
                           paths |-> longer.paths \cup rest.paths]

determine_possible_paths_recursive(current_path, time_remaining, valve_activation_times) ==
    LET found == NextValveLoop(1, current_path, time_remaining, valve_activation_times)
    IN  [panicked |-> found.panicked, paths |-> found.paths \cup {current_path}]

determine_possible_paths(start_valve, valve_activation_times, minutes_allowed) ==
    determine_possible_paths_recursive(<<start_valve>>, minutes_allowed, valve_activation_times)

\* The for loop of lines 160-173 from index i on, then line 175.
RECURSIVE PressureLoop(_, _, _, _, _, _, _)
PressureLoop(i, path, valve_flow_rates, valve_activation_times, minutes_remaining, pressure_per_minute, total_pressure_released) ==
    IF i > Len(path) THEN total_pressure_released + pressure_per_minute * minutes_remaining
    ELSE LET activation_time == valve_activation_times[path[i - 1]][path[i]]
         IN  PressureLoop(i + 1, path, valve_flow_rates, valve_activation_times,
                          minutes_remaining - activation_time,
                          pressure_per_minute + valve_flow_rates[path[i]],
                          total_pressure_released + pressure_per_minute * activation_time)

\* The largest flow rate of the path, released in every minute allowed.
PressureWithoutTravel(path, valve_flow_rates, valve_activation_times, minutes_allowed) ==
    PressureLoop(Len(path) + 1, path, valve_flow_rates, valve_activation_times, minutes_allowed,
                 SetMax({0} \cup {valve_flow_rates[path[i]] : i \in 2..Len(path)}), 0)

get_pressure_released_for_path(path, valve_flow_rates, valve_activation_times, minutes_allowed) ==
    PressureLoop(2, path, valve_flow_rates, valve_activation_times, minutes_allowed, 0, 0)

D16Init ==
    /\ \E input \in Day16Inputs :
        d16 = [pc |-> "called", input |-> input, valve_activation_times |-> <<>>,
               possible_paths |-> {}, result |-> 0]
    /\ geo = Idle /\ d17 = Idle /\ d21 = Idle /\ d25 = Idle /\ parse = Idle
    /\ d23 = Idle /\ d24 = Idle /\ d18 = Idle /\ d19 = Idle /\ d11 = Idle /\ wild = Idle
    /\ d06 = Idle /\ d15 = Idle /\ main = Idle

D16Others == UNCHANGED <<geo, d17, d21, d25, parse, d23, d24, d18, d19, d11, wild, d06, d15, main>>

\* Line 91.
D16ActivationTimes ==
    /\ d16.pc = "called"
    /\ d16' = [d16 EXCEPT !.pc = "paths",
                          !.valve_activation_times =
                              get_valve_activation_times(d16.input.valve_flow_rates,
                                                         d16.input.valve_connections)]
    /\ D16Others

\* Line 92.
D16PossiblePaths ==
    /\ d16.pc = "paths"
    /\ \E found \in {determine_possible_paths("AA", d16.valve_activation_times, PART1_MINUTES)} :
        d16' = IF found.panicked THEN [d16 EXCEPT !.pc = "panicked"]
               ELSE [d16 EXCEPT !.pc = "paths_found", !.possible_paths = found.paths]
    /\ D16Others

\* Lines 93-105.
D16MaxPressure ==
    /\ d16.pc = "paths_found"
    /\ d16' = [d16 EXCEPT !.pc = "returned",
                          !.result = SetMax({0} \cup
                              {get_pressure_released_for_path(path, d16.input.valve_flow_rates,
                                                              d16.valve_activation_times,
                                                              PART1_MINUTES) :
                                  path \in d16.possible_paths})]
    /\ D16Others

D16Next == D16ActivationTimes \/ D16PossiblePaths \/ D16MaxPressure

SpecDay16 == D16Init /\ [][D16Next]_vars

\* The situations of a schedule: the valve it is at and the valves with flow
\* it has opened.
Situations(input) ==
    (DOMAIN input.valve_flow_rates) \X
        SUBSET {v \in DOMAIN input.valve_flow_rates : input.valve_flow_rates[v] > 0}

\* before[<<at, open>>] is the most pressure, counted up to minute
\* PART1_MINUTES, that the valves opened in the first t - 1 minutes release
\* over all schedules that are at valve at with the valves of open opened
\* after minute t - 1, or -1 when there is no such schedule; the result is
\* the same for minute t. In minute t the schedule walks one tunnel or opens
\* the valve it is at, which then releases its flow rate in each of the
\* PART1_MINUTES - t minutes that remain; opening a valve without flow
\* changes nothing.
AfterMinute(input, before, t) ==
    [s \in Situations(input) |->
        LET at == s[1]
            open == s[2]
            rates == input.valve_flow_rates
            walked == {before[<<from, open>>] :
                          from \in {v \in DOMAIN rates :
                                       at \in SeqRange(input.valve_connections[v])}}
            opened == IF at \in open /\ before[<<at, open \ {at}>>] >= 0
                      THEN {before[<<at, open \ {at}>>] + rates[at] * (PART1_MINUTES - t)}
                      ELSE {}
            idled == IF rates[at] = 0 THEN {before[s]} ELSE {}
        IN  SetMax({0 - 1} \cup walked \cup opened \cup idled)]

\* The most pressure released when minute t and the minutes after it are
\* spent starting from before.
RECURSIVE MostFrom(_, _, _)
MostFrom(input, before, t) ==
    IF t > PART1_MINUTES THEN SetMax({before[s] : s \in Situations(input)})
    ELSE CHOOSE most \in {MostFrom(input, after, t + 1) :
                            after \in {f \in {AfterMinute(input, before, t)} : f = f}} : TRUE

\* The most pressure any schedule releases in PART1_MINUTES minutes from AA
\* with no valve open.
MostReleased(input) ==
    MostFrom(input, [s \in Situations(input) |-> IF s = <<"AA", {}>> THEN 0 ELSE 0 - 1], 1)

D16Done == d16.pc \in {"returned", "panicked"}

\* C9 as stated: solve_part1 returns the most pressure that can be released
\* in 30 minutes from AA, walking one tunnel or opening one valve a minute.
C9_MaxPressureEveryInput ==
    D16Done => (d16.pc = "returned" /\ d16.result = MostReleased(d16.input))

\* target can be reached from source through the tunnels.
RECURSIVE ReachedFrom(_, _)
ReachedFrom(input, reached) ==
    LET more == UNION {SeqRange(input.valve_connections[v]) : v \in reached} \ reached
    IN  IF more = {} THEN reached ELSE ReachedFrom(input, reached \cup more)

\* AA has no flow, and AA and the valves with flow can all be reached from
\* one another.
Day16Usable(input) ==
    LET rates == input.valve_flow_rates
        valid == {"AA"} \cup {v \in DOMAIN rates : rates[v] > 0}
    IN  /\ rates["AA"] = 0
        /\ \A v \in valid : valid \subseteq ReachedFrom(input, {v})

\* C9: when AA has no flow and AA and the valves with flow can all be
\* reached from one another, solve_part1 returns the most pressure that can
\* be released in 30 minutes from AA, walking one tunnel or opening one valve
\* a minute.
C9_MaxPressureUsableInput ==
    (D16Done /\ Day16Usable(d16.input)) =>
        (d16.pc = "returned" /\ d16.result = MostReleased(d16.input))

\* solve_part1 has returned a pressure for valves too far apart to open
\* them all in time: a path with every valve with flow is not among the paths.
C9_Witness ==
    /\ d16.pc = "returned"
    /\ Day16Usable(d16.input)
    /\ d16.result > 0
    /\ \A path \in d16.possible_paths : Len(path) < Cardinality(DOMAIN d16.valve_activation_times)

(***************************************************************************)
(* bin/day19.rs: Not Enough Minerals *)
(***************************************************************************)
\* The largest ore cost of a robot and the largest time allowed of the inputs.
MaxOreCost == 3

MaxTimeAllowed == 12

ResourceBag(ore, clay, obsidian, geode) ==
    [ore |-> ore, clay |-> clay, obsidian |-> obsidian, geode |-> geode]

blank == ResourceBag(0, 0, 0, 0)

fits_within(self, other) ==
    /\ self.ore >= other.ore
    /\ self.clay >= other.clay
    /\ self.obsidian >= other.obsidian
    /\ self.geode >= other.geode

\* The variants of RobotType in the order RobotType::iter() yields them.
RobotTypes == <<"OreRobot", "ClayRobot", "ObsidianRobot", "GeodeRobot">>

\* A blueprint as process_input_file builds it from the seven numbers of a line.
Blueprint(id, ore_ore, clay_ore, obsidian_ore, obsidian_clay, geode_ore, geode_obsidian) ==
    [id |-> id,
     ore_robot |-> ResourceBag(ore_ore, 0, 0, 0),
     clay_robot |-> ResourceBag(clay_ore, 0, 0, 0),
     obsidian_robot |-> ResourceBag(obsidian_ore, obsidian_clay, 0, 0),
     geode_robot |-> ResourceBag(geode_ore, 0, geode_obsidian, 0)]

\* Blueprints whose ore robot costs one of the two largest ore costs, whose
\* clay robot costs the largest, whose obsidian robot costs 1 ore and 1 clay
\* and whose geode robot costs any ore cost and 1 obsidian, with a time allowed.
Day19Inputs ==
    {[blueprint |-> Blueprint(1, ore_ore, MaxOreCost, 1, 1, geode_ore, 1),
      time_allowed |-> time_allowed] :
        ore_ore \in (MaxOreCost - 1)..MaxOreCost, geode_ore \in 1..MaxOreCost,
        time_allowed \in 1..MaxTimeAllowed}

\* The match of lines 241-246.
resources_needed(blueprint, robot_type) ==
    CASE robot_type = "OreRobot" -> blueprint.ore_robot
      [] robot_type = "ClayRobot" -> blueprint.clay_robot
      [] robot_type = "ObsidianRobot" -> blueprint.obsidian_robot
      [] robot_type = "GeodeRobot" -> blueprint.geode_robot

\* The for loop of lines 240-256 from the k-th robot type on.
RECURSIVE BuildOptionsLoop(_, _, _, _)
BuildOptionsLoop(k, blueprint, resource_total, build_options) ==
    IF k > Len(RobotTypes) THEN build_options
    ELSE IF fits_within(resource_total, resources_needed(blueprint, RobotTypes[k]))
    THEN IF RobotTypes[k] = "GeodeRobot" THEN <<"GeodeRobot">>
         ELSE BuildOptionsLoop(k + 1, blueprint, resource_total,
                               Append(build_options, RobotTypes[k]))
    ELSE BuildOptionsLoop(k + 1, blueprint, resource_total, build_options)

\* Lines 239-256.
BuildOptions(blueprint, resource_total) ==
    BuildOptionsLoop(1, blueprint, resource_total, <<"None">>)

\* The prunes of lines 231-237.
PrunedOnEntry(blueprint, robot_total, time_remaining, earliest_geode_robot_time) ==
    \/ robot_total.obsidian > blueprint.geode_robot.obsidian
    \/ time_remaining < earliest_geode_robot_time /\ robot_total.geode = 0

\* robot_construction of lines 258-283.
Construction(robot_option) ==
    CASE robot_option = "OreRobot" -> ResourceBag(1, 0, 0, 0)
      [] robot_option = "ClayRobot" -> ResourceBag(0, 1, 0, 0)
      [] robot_option = "ObsidianRobot" -> ResourceBag(0, 0, 1, 0)
      [] robot_option = "GeodeRobot" -> ResourceBag(0, 0, 0, 1)
      [] robot_option = "None" -> blank

\* resource_total after the match of lines 260-283.
Spent(blueprint, resource_total, robot_option) ==
    IF robot_option = "None" THEN resource_total
    ELSE LET cost == resources_needed(blueprint, robot_option)
         IN  ResourceBag(resource_total.ore - cost.ore, resource_total.clay - cost.clay,
                         resource_total.obsidian - cost.obsidian, resource_total.geode)

\* The prunes of lines 285-296.
SkippedOption(robot_total, time_remaining, robot_construction) ==
    \/ time_remaining <= 2 /\ robot_total.geode = 0 /\ robot_construction.geode = 0
    \/ time_remaining <= 2 /\ robot_construction.obsidian > 0
    \/ time_remaining <= 2 /\ robot_construction.clay > 0
    \/ time_remaining <= 2 /\ robot_construction.ore > 0

\* Lines 298-308: the bag with the other bag's amounts added.
Added(bag, other) ==
    ResourceBag(bag.ore + other.ore, bag.clay + other.clay, bag.obsidian + other.obsidian,
                bag.geode + other.geode)

\* The frame of a call of simulate_blueprint_recursive that has reached its
\* second for loop: its arguments and the build options not yet tried.
Frame(blueprint, resource_total, robot_total, time_remaining) ==
    [resource_total |-> resource_total, robot_total |-> robot_total,
     time_remaining |-> time_remaining,
     build_options |-> BuildOptions(blueprint, resource_total)]

\* simulate_blueprint up to the first iteration of a second for loop. The
\* first call is not pruned: no obsidian robot, no geode robot time yet.
D19Init ==
    /\ \E input \in Day19Inputs :
        d19 = [pc |-> "running", blueprint |-> input.blueprint,
               time_allowed |-> input.time_allowed, geode_totals |-> {0},
               earliest_geode_robot_time |-> 0,
               stack |-> <<Frame(input.blueprint, blank, ResourceBag(1, 0, 0, 0),
                                 input.time_allowed)>>,
               result |-> 0]
    /\ geo = Idle /\ d17 = Idle /\ d21 = Idle /\ d25 = Idle /\ parse = Idle
    /\ d23 = Idle /\ d24 = Idle /\ d18 = Idle /\ d16 = Idle /\ d11 = Idle /\ wild = Idle
    /\ d06 = Idle /\ d15 = Idle /\ main = Idle

D19Others == UNCHANGED <<geo, d17, d21, d25, parse, d23, d24, d18, d16, d11, wild, d06, d15, main>>

\* The frame on top of the stack has a build option to try.
D19HasOption == d19.pc = "running" /\ d19.stack # <<>> /\ Head(d19.stack).build_options # <<>>

\* The stack with the option being tried taken off the top frame.
OptionTaken ==
    <<[Head(d19.stack) EXCEPT !.build_options = Tail(@)]>> \o Tail(d19.stack)

\* Lines 275-277.
EarliestAfter(robot_option, time_remaining) ==
    IF robot_option = "GeodeRobot" /\ time_remaining > d19.earliest_geode_robot_time
    THEN time_remaining ELSE d19.earliest_geode_robot_time

\* An iteration of the second for loop that ends at a continue.
D19SkipOption ==
    /\ D19HasOption
    /\ LET frame == Head(d19.stack)
           robot_option == Head(frame.build_options)
       IN  /\ SkippedOption(frame.robot_total, frame.time_remaining, Construction(robot_option))
           /\ d19' = [d19 EXCEPT !.stack = OptionTaken,
                                 !.earliest_geode_robot_time =
                                     EarliestAfter(robot_option, frame.time_remaining)]
    /\ D19Others

\* An iteration whose call finds no time remaining and records the geodes.
D19CallRecords ==
    /\ D19HasOption
    /\ LET frame == Head(d19.stack)
           robot_option == Head(frame.build_options)
           resource_total == Added(Spent(d19.blueprint, frame.resource_total, robot_option),
                                   frame.robot_total)
       IN  /\ ~SkippedOption(frame.robot_total, frame.time_remaining, Construction(robot_option))
           /\ frame.time_remaining - 1 = 0
           /\ d19' = [d19 EXCEPT !.stack = OptionTaken,
                                 !.earliest_geode_robot_time =
                                     EarliestAfter(robot_option, frame.time_remaining),
                                 !.geode_totals = @ \cup {resource_total.geode}]
    /\ D19Others

\* An iteration whose call returns at one of its prunes.
D19CallPruned ==
    /\ D19HasOption
    /\ LET frame == Head(d19.stack)
           robot_option == Head(frame.build_options)
           robot_total == Added(frame.robot_total, Construction(robot_option))
           earliest == EarliestAfter(robot_option, frame.time_remaining)
       IN  /\ ~SkippedOption(frame.robot_total, frame.time_remaining, Construction(robot_option))
           /\ frame.time_remaining - 1 # 0
           /\ PrunedOnEntry(d19.blueprint, robot_total, frame.time_remaining - 1, earliest)
           /\ d19' = [d19 EXCEPT !.stack = OptionTaken, !.earliest_geode_robot_time = earliest]
    /\ D19Others

\* An iteration whose call reaches its own second for loop.
D19CallDescends ==
    /\ D19HasOption
    /\ LET frame == Head(d19.stack)
           robot_option == Head(frame.build_options)
           resource_total == Added(Spent(d19.blueprint, frame.resource_total, robot_option),
                                   frame.robot_total)
           robot_total == Added(frame.robot_total, Construction(robot_option))
           earliest == EarliestAfter(robot_option, frame.time_remaining)
       IN  /\ ~SkippedOption(frame.robot_total, frame.time_remaining, Construction(robot_option))
           /\ frame.time_remaining - 1 # 0
           /\ ~PrunedOnEntry(d19.blueprint, robot_total, frame.time_remaining - 1, earliest)
           /\ d19' = [d19 EXCEPT !.stack = <<Frame(d19.blueprint, resource_total, robot_total,
                                                   frame.time_remaining - 1)>> \o OptionTaken,
                                 !.earliest_geode_robot_time = earliest]
    /\ D19Others

\* The second for loop of the call on top has ended: the call returns.
D19CallReturns ==
    /\ d19.pc = "running"
    /\ d19.stack # <<>>
    /\ Head(d19.stack).build_options = <<>>
    /\ d19' = [d19 EXCEPT !.stack = Tail(@)]
    /\ D19Others

\* Line 210.
D19Return ==
    /\ d19.pc = "running"
    /\ d19.stack = <<>>
    /\ d19' = [d19 EXCEPT !.pc = "returned", !.result = SetMax(d19.geode_totals)]
    /\ D19Others

D19Next ==
    \/ D19SkipOption
    \/ D19CallRecords
    \/ D19CallPruned
    \/ D19CallDescends
    \/ D19CallReturns
    \/ D19Return

SpecDay19 == D19Init /\ [][D19Next]_vars

\* What a factory with the given resources and robots can have after one
\* more minute: it builds no robot or one robot it can pay for, its robots
\* each collect one unit, and the robot built is ready at the end of the minute.
AfterOneMinute(blueprint, factory) ==
    {[resource_total |-> Added(factory.resource_total, factory.robot_total),
      robot_total |-> factory.robot_total]}
    \cup
    {[resource_total |-> Added(Spent(blueprint, factory.resource_total, RobotTypes[k]),
                               factory.robot_total),
      robot_total |-> Added(factory.robot_total, Construction(RobotTypes[k]))] :
        k \in {j \in 1..Len(RobotTypes) :
                 fits_within(factory.resource_total, resources_needed(blueprint, RobotTypes[j]))}}

\* The factories any build schedule can have after the given number of minutes.
RECURSIVE FactoriesAfter(_, _, _)
FactoriesAfter(blueprint, factories, minutes) ==
    IF minutes = 0 THEN factories
    ELSE FactoriesAfter(blueprint,
                        UNION {AfterOneMinute(blueprint, factory) : factory \in factories},
                        minutes - 1)

\* The largest number of geodes any build schedule has collected when the
\* time runs out: what a factory holds before the last minute and what its
\* geode robots collect in that minute (a robot built in the last minute is
\* ready when the time is out, and no robot costs geodes).
MostGeodes(blueprint, time_allowed) ==
    SetMax({factory.resource_total.geode + factory.robot_total.geode :
               factory \in FactoriesAfter(blueprint,
                                          {[resource_total |-> blank,
                                            robot_total |-> ResourceBag(1, 0, 0, 0)]},
                                          time_allowed - 1)})

\* C10: what simulate_blueprint returns is the largest number of geodes any
\* build schedule can have collected when the time runs out.
C10_ReturnsMostGeodes ==
    d19.pc = "returned" => d19.result = MostGeodes(d19.blueprint, d19.time_allowed)

(***************************************************************************)
(* bin/day11.rs: Monkey in the Middle *)
(***************************************************************************)
\* The number of bits of the model's u128; the model's u64 has half of them.
WorryBits == 8

\* Largest starting item, operand of an operation and divisor of the small
\* inputs, and the largest number of rounds of a run without worry reduction.
MaxItem == 2

MaxOperand == 2

MaxDivisor == 2

MaxRounds11 == 2

\* The number of rounds solve_part1 asks for.
PART1_ROUNDS == 20

U128Max == Pow(2, WorryBits) - 1

U64Max == Pow(2, WorryBits \div 2) - 1

\* An arithmetic result x of an unsigned type with the given largest value:
\* overflow panics in a debug build and wraps in a release build.
CheckedUnsigned(x, max, build) ==
    IF x <= max THEN [panicked |-> FALSE, value |-> x]
    ELSE IF build = "debug" THEN [panicked |-> TRUE, value |-> 0]
    ELSE [panicked |-> FALSE, value |-> x % (max + 1)]

OperationAdd(value) == [kind |-> "Add", value |-> value]

OperationMult(value) == [kind |-> "Mult", value |-> value]

OperationPow(value) == [kind |-> "Pow", value |-> value]

\* Monkey::new
Monkey(items, op, test_mod, true_monkey, false_monkey) ==
    [items |-> items, op |-> op, test_mod |-> test_mod, true_monkey |-> true_monkey,
     false_monkey |-> false_monkey, items_inspected |-> 0]

\* The match of lines 50-54 on unbounded integers.
Applied(op, item) ==
    CASE op.kind = "Add" -> item + op.value
      [] op.kind = "Mult" -> item * op.value
      [] op.kind = "Pow" -> Pow(item, op.value)

\* A remainder of zero is replaced by the supermodulo itself, where the
\* worry level should stay divisible by every divisor: by 1.
ReducedToOne(worry, supermodulo) ==
    IF worry % supermodulo = 0 THEN 1 ELSE worry % supermodulo

\* Lines 60-63.
Reduced(worry, supermodulo) ==
    IF worry % supermodulo = 0 THEN supermodulo ELSE worry % supermodulo

Panicked == [panicked |-> TRUE]

\* The loop of inspect_and_throw from the monkey's first item on. The
\* counter of inspected items is taken as unbounded: it counts one per
\* inspection from zero.
RECURSIVE InspectLoop(_, _, _, _, _)
InspectLoop(self, thrown_items, reduce_worry, supermodulo, build) ==
    IF self.items = <<>>
    THEN [panicked |-> FALSE, self |-> self, thrown_items |-> thrown_items]
    ELSE LET inspected == CheckedUnsigned(Applied(self.op, Head(self.items)), U128Max, build)
             relieved == IF reduce_worry THEN inspected.value \div 3 ELSE inspected.value
         IN  IF inspected.panicked \/ supermodulo = 0 \/ self.test_mod = 0 THEN Panicked
             ELSE LET worry == Reduced(relieved, supermodulo)
                      new_monkey == IF worry % self.test_mod = 0 THEN self.true_monkey
                                    ELSE self.false_monkey
                  IN  InspectLoop([self EXCEPT !.items = Tail(@), !.items_inspected = @ + 1],
                                  Append(thrown_items, <<new_monkey, worry>>),
                                  reduce_worry, supermodulo, build)

inspect_and_throw(self, reduce_worry, supermodulo, build) ==
    InspectLoop(self, <<>>, reduce_worry, supermodulo, build)

\* The product of line 178 from the k-th monkey on.
RECURSIVE ProductLoop(_, _, _, _)
ProductLoop(monkeys, k, product, build) ==
    IF k > Len(monkeys) THEN [panicked |-> FALSE, value |-> product]
    ELSE LET next == CheckedUnsigned(product * monkeys[k].test_mod, U128Max, build)
         IN  IF next.panicked THEN next ELSE ProductLoop(monkeys, k + 1, next.value, build)

\* Lines 183-185 from the k-th thrown item on; a monkey that is not there
\* panics.
RECURSIVE PushLoop(_, _, _)
PushLoop(monkeys, thrown_items, k) ==
    IF k > Len(thrown_items) THEN [panicked |-> FALSE, monkeys |-> monkeys]
    ELSE IF thrown_items[k][1] >= Len(monkeys) THEN Panicked
    ELSE PushLoop([monkeys EXCEPT ![thrown_items[k][1] + 1].items =
                                      Append(@, thrown_items[k][2])],
                  thrown_items, k + 1)

\* Lines 182-186: the turn of the monkey of index i (counted from 0).
Turn(monkeys, i, reduce_worry, supermodulo, build) ==
    LET thrown == inspect_and_throw(monkeys[i + 1], reduce_worry, supermodulo, build)
    IN  IF thrown.panicked THEN Panicked
        ELSE PushLoop([monkeys EXCEPT ![i + 1] = thrown.self], thrown.thrown_items, 1)

\* The product of the (at most) `count` largest of the numbers.
RECURSIVE TakeLargest(_, _)
TakeLargest(numbers, count) ==
    IF count = 0 \/ numbers = <<>> THEN 1
    ELSE LET j == CHOOSE j \in DOMAIN numbers : \A l \in DOMAIN numbers : numbers[l] <= numbers[j]
         IN  numbers[j] * TakeLargest(SubSeq(numbers, 1, j - 1) \o
                                      SubSeq(numbers, j + 1, Len(numbers)), count - 1)

\* Lines 188-190.
MonkeyBusinessLevel(monkeys) ==
    TakeLargest([k \in DOMAIN monkeys |-> monkeys[k].items_inspected], 2)

\* The operations of the small inputs.
SmallOperations ==
    {OperationAdd(value) : value \in 1..MaxOperand}
    \cup {OperationMult(value) : value \in 1..MaxOperand}
    \cup {OperationPow(2)}

\* Monkeys with at most one starting item that throw to monkey 0 or 1.
SmallMonkeys ==
    {Monkey(items, op, test_mod, true_monkey, false_monkey) :
        items \in {<<>>} \cup {<<item>> : item \in 1..MaxItem},
        op \in SmallOperations, test_mod \in 1..MaxDivisor,
        true_monkey \in 0..1, false_monkey \in 0..1}

\* The smallest item whose square does not fit the u128 of the model.
LargeItem == Pow(2, (WorryBits + 1) \div 2)

\* Monkeys with a large item or a large divisor.
LargeMonkeys ==
    {Monkey(<<LargeItem>>, op, test_mod, true_monkey, false_monkey) :
        op \in {OperationPow(2), OperationAdd(1)}, test_mod \in {MaxDivisor + 1, LargeItem},
        true_monkey \in 0..1, false_monkey \in 0..1}

\* Three monkeys that divide by the largest small divisor, hold no item or
\* one, add 1 or multiply, and throw to the other two.
Part1Monkeys(i) ==
    {Monkey(items, op, MaxDivisor, (i + way) % 3, (i + 3 - way) % 3) :
        items \in {<<>>, <<3 * MaxItem>>},
        op \in {OperationAdd(1), OperationMult(2 * MaxOperand)},
        way \in 1..2}

\* get_monkey_business is called: line 177.
Called(initial_monkeys, rounds, reduce_worry, build) ==
    [pc |-> "called", initial_monkeys |-> initial_monkeys, rounds |-> rounds,
     reduce_worry |-> reduce_worry, build |-> build, monkeys |-> initial_monkeys,
     supermodulo |-> 0, round |-> 0, i |-> 0, result |-> 0]

\* Two small monkeys for up to MaxRounds11 rounds without worry reduction
\* (no worry level of theirs overflows, so the build makes no difference and
\* they run in the debug build), two large monkeys for one such round in
\* either build, and three monkeys for the rounds of solve_part1 with worry
\* reduction.
D11Init ==
    /\ \/ \E first \in SmallMonkeys, second \in SmallMonkeys, rounds \in 0..MaxRounds11 :
            d11 = Called(<<first, second>>, rounds, FALSE, "debug")
       \/ \E first \in LargeMonkeys, second \in LargeMonkeys, build \in {"debug", "release"} :
            d11 = Called(<<first, second>>, 1, FALSE, build)
       \/ \E first \in Part1Monkeys(0), second \in Part1Monkeys(1), third \in Part1Monkeys(2) :
            d11 = Called(<<first, second, third>>, PART1_ROUNDS, TRUE, "debug")
    /\ geo = Idle /\ d17 = Idle /\ d21 = Idle /\ d25 = Idle /\ parse = Idle
    /\ d23 = Idle /\ d24 = Idle /\ d18 = Idle /\ d16 = Idle /\ d19 = Idle
    /\ wild = Idle /\ d06 = Idle /\ d15 = Idle /\ main = Idle

D11Others ==
    UNCHANGED <<geo, d17, d21, d25, parse, d23, d24, d18, d16, d19, wild, d06, d15, main>>

\* Line 178.
D11Supermodulo ==
    /\ d11.pc = "called"
    /\ \E product \in {ProductLoop(d11.monkeys, 1, 1, d11.build)} :
        /\ ~product.panicked
        /\ d11' = [d11 EXCEPT !.pc = "running", !.supermodulo = product.value]
    /\ D11Others

D11SupermoduloPanics ==
    /\ d11.pc = "called"
    /\ ProductLoop(d11.monkeys, 1, 1, d11.build).panicked
    /\ d11' = [d11 EXCEPT !.pc = "panicked"]
    /\ D11Others

\* The loops of lines 179-187 have a turn left.
D11HasTurn == d11.pc = "running" /\ d11.round < d11.rounds /\ d11.monkeys # <<>>

\* Lines 181-186: one turn, and the step to the next monkey or round.
D11Turn ==
    /\ D11HasTurn
    /\ \E after \in {Turn(d11.monkeys, d11.i, d11.reduce_worry, d11.supermodulo, d11.build)} :
        /\ ~after.panicked
        /\ d11' = [d11 EXCEPT !.monkeys = after.monkeys,
                              !.i = IF d11.i + 1 = Len(d11.monkeys) THEN 0 ELSE d11.i + 1,
                              !.round = IF d11.i + 1 = Len(d11.monkeys) THEN @ + 1 ELSE @]
    /\ D11Others

D11TurnPanics ==
    /\ D11HasTurn
    /\ Turn(d11.monkeys, d11.i, d11.reduce_worry, d11.supermodulo, d11.build).panicked
    /\ d11' = [d11 EXCEPT !.pc = "panicked"]
    /\ D11Others

\* Lines 188-190.
D11Return ==
    /\ d11.pc = "running"
    /\ ~D11HasTurn
    /\ d11' = [d11 EXCEPT !.pc = "returned", !.result = MonkeyBusinessLevel(d11.monkeys)]
    /\ D11Others

D11Next ==
    \/ D11Supermodulo
    \/ D11SupermoduloPanics
    \/ D11Turn
    \/ D11TurnPanics
    \/ D11Return

SpecDay11 == D11Init /\ [][D11Next]_vars

\* The same simulation on unreduced worry levels: an inspection applies the
\* operation, divides by 3 where the worry is reduced, and throws by the
\* divisor; the worry levels are unbounded integers.
RECURSIVE UnreducedInspectLoop(_, _, _)
UnreducedInspectLoop(self, thrown_items, reduce_worry) ==
    IF self.items = <<>> THEN [self |-> self, thrown_items |-> thrown_items]
    ELSE LET inspected == Applied(self.op, Head(self.items))
             worry == IF reduce_worry THEN inspected \div 3 ELSE inspected
             new_monkey == IF worry % self.test_mod = 0 THEN self.true_monkey
                           ELSE self.false_monkey
         IN  UnreducedInspectLoop([self EXCEPT !.items = Tail(@), !.items_inspected = @ + 1],
                                  Append(thrown_items, <<new_monkey, worry>>), reduce_worry)

UnreducedTurn(monkeys, i, reduce_worry) ==
    LET thrown == UnreducedInspectLoop(monkeys[i + 1], <<>>, reduce_worry)
    IN  PushLoop([monkeys EXCEPT ![i + 1] = thrown.self], thrown.thrown_items, 1).monkeys

\* The monkeys after the given number of further turns, the monkey of index
\* i first.
RECURSIVE UnreducedRun(_, _, _, _)
UnreducedRun(monkeys, i, turns, reduce_worry) ==
    IF turns = 0 THEN monkeys
    ELSE CHOOSE last \in {UnreducedRun(after, (i + 1) % Len(monkeys), turns - 1, reduce_worry) :
                             after \in {UnreducedTurn(monkeys, i, reduce_worry)}} : TRUE

UnreducedAfter(initial_monkeys, turns, reduce_worry) ==
    UnreducedRun(initial_monkeys, 0, turns, reduce_worry)

UnreducedLevel(initial_monkeys, rounds, reduce_worry) ==
    MonkeyBusinessLevel(UnreducedAfter(initial_monkeys, rounds * Len(initial_monkeys),
                                       reduce_worry))

\* The run has come to its end, by a return or a panic.
D11Ended == d11.pc \in {"returned", "panicked"}

\* The level of the run is that of the unreduced simulation.
D11LevelAsUnreduced ==
    /\ d11.pc = "returned"
    /\ d11.result = UnreducedLevel(d11.initial_monkeys, d11.rounds, d11.reduce_worry)

\* C11 as stated: without worry reduction, for every set of monkeys and
\* number of rounds, the monkey business level of get_monkey_business is
\* that of the same simulation on unreduced worry levels.
C11_LevelAsUnreducedEveryInput ==
    (D11Ended /\ ~d11.reduce_worry) => D11LevelAsUnreduced

\* No worry level overflows the u128: the product of the divisors fits, and
\* so does the operation of every monkey applied to the larger of that
\* product and the largest starting item.
Day11InRange ==
    LET product == ProductLoop(d11.initial_monkeys, 1, 1, "debug")
        items == UNION {{m.items[k] : k \in DOMAIN m.items} :
                          m \in {d11.initial_monkeys[j] : j \in DOMAIN d11.initial_monkeys}}
    IN  /\ ~product.panicked
        /\ \A j \in DOMAIN d11.initial_monkeys :
              Applied(d11.initial_monkeys[j].op, SetMax(items \cup {product.value})) <= U128Max

\* C11: without worry reduction, for monkeys whose worry levels do not
\* overflow and any number of rounds, get_monkey_business returns, its level
\* is that of the same simulation on unreduced worry levels, and every monkey
\* has inspected as many items in both.
C11_LevelAsUnreducedInRange ==
    (D11Ended /\ ~d11.reduce_worry /\ Day11InRange) =>
        /\ D11LevelAsUnreduced
        /\ LET unreduced == UnreducedAfter(d11.initial_monkeys,
                                           d11.rounds * Len(d11.initial_monkeys), FALSE)
           IN  \A j \in DOMAIN d11.monkeys :
                  d11.monkeys[j].items_inspected = unreduced[j].items_inspected

\* A run in range has returned after its last round with worry levels that
\* were reduced, one of them from a remainder of zero.
C11_Witness ==
    /\ d11.pc = "returned"
    /\ ~d11.reduce_worry
    /\ Day11InRange
    /\ d11.rounds = MaxRounds11
    /\ d11.result > 1
    /\ d11.supermodulo > MaxDivisor
    /\ \A j \in DOMAIN d11.monkeys : d11.monkeys[j].true_monkey # d11.monkeys[j].false_monkey
    /\ \E j \in DOMAIN d11.monkeys :
          /\ d11.monkeys[j].items # <<>>
          /\ d11.monkeys[j].items[1] = d11.supermodulo
          /\ d11.monkeys[j].items #
                 UnreducedAfter(d11.initial_monkeys, d11.rounds * Len(d11.initial_monkeys),
                                FALSE)[j].items

\* C12: with the worry reduced, for every set of monkeys, the monkey business
\* level of get_monkey_business after 20 rounds is that of the same 20 rounds
\* with the division by 3 applied to unreduced worry levels.
C12_DividedLevelAsUnreduced ==
    (D11Ended /\ d11.reduce_worry /\ d11.rounds = PART1_ROUNDS) => D11LevelAsUnreduced

(***************************************************************************)
(* bin/day06.rs: Tuning Trouble *)
(***************************************************************************)
\* Largest number of characters of an input.
MaxInputLen == 18

Letters ==
    <<"a", "b", "c", "d", "e", "f", "g", "h", "i", "j", "k", "l", "m", "n", "o", "p", "q",
      "r", "s", "t">>

\* The input of the given length whose characters are all different, except
\* that the characters at the given places repeat the one `gap` places
\* before them.
Signal(length, repeats, gap) ==
    [place \in 1..length |->
        IF place \in repeats /\ place > gap THEN Letters[place - gap] ELSE Letters[place]]

\* Inputs with no, one or two repeated characters, which stand next to the
\* one they repeat or 13 places after it.
Day6Inputs ==
    {Signal(length, repeats, gap) :
        length \in 0..MaxInputLen,
        repeats \in {{}} \cup {{one, other} : one \in 1..MaxInputLen, other \in 1..MaxInputLen},
        gap \in {1, 13}}

\* The window read up to its last character but one.
window_set_of_13(input, cursor) == {input[cursor + i + 1] : i \in 0..12}

\* Lines 68-71: the characters of the window at the cursor (counted from 0).
window_set(input, cursor) == {input[cursor + i + 1] : i \in 0..13}

D06Init ==
    /\ \E input \in Day6Inputs : d06 = [pc |-> "running", input |-> input, cursor |-> 0,
                                        result |-> 0]
    /\ geo = Idle /\ d17 = Idle /\ d21 = Idle /\ d25 = Idle /\ parse = Idle
    /\ d23 = Idle /\ d24 = Idle /\ d18 = Idle /\ d16 = Idle /\ d19 = Idle
    /\ d11 = Idle /\ wild = Idle /\ d15 = Idle /\ main = Idle

D06Others ==
    UNCHANGED <<geo, d17, d21, d25, parse, d23, d24, d18, d16, d19, d11, wild, d15, main>>

\* The cursor is in the range of line 67.
D06InRange == Len(d06.input) >= 13 /\ d06.cursor < Len(d06.input) - 13

\* Lines 68-75 for a window with a repeated character.
D06Advance ==
    /\ d06.pc = "running"
    /\ D06InRange
    /\ Cardinality(window_set(d06.input, d06.cursor)) # 14
    /\ d06' = [d06 EXCEPT !.cursor = @ + 1]
    /\ D06Others

\* Lines 72-74.
D06Return ==
    /\ d06.pc = "running"
    /\ D06InRange
    /\ Cardinality(window_set(d06.input, d06.cursor)) = 14
    /\ d06' = [d06 EXCEPT !.pc = "returned", !.result = d06.cursor + 14]
    /\ D06Others

\* Line 76, and line 67 for an input of fewer than 13 characters: the
\* subtraction panics in a debug build, and in a release build it wraps and
\* the first window is indexed beyond the end of the input.
D06Panic ==
    /\ d06.pc = "running"
    /\ ~D06InRange
    /\ d06' = [d06 EXCEPT !.pc = "panicked"]
    /\ D06Others

D06Next ==
    \/ D06Advance
    \/ D06Return
    \/ D06Panic

SpecDay06 == D06Init /\ [][D06Next]_vars

\* The numbers of characters processed when `size` consecutive characters
\* that are all different have been read.
MarkerEnds(input, size) ==
    {n \in size..Len(input) : Cardinality({input[k] : k \in (n - size + 1)..n}) = size}

D06Ended == d06.pc \in {"returned", "panicked"}

RowLimit == 2

\* Sensors stand at columns -MaxSensorX..MaxSensorX of rows 0 and 1, their
\* closest beacons up to MaxBeaconDistance columns to their right.
MaxSensorX == 3

MaxBeaconDistance == 2

\* A sensor with its closest beacon.
Day15Readings ==
    {<<Point2D(x, y), Point2D(x + distance, y)>> :
        x \in (0 - MaxSensorX)..MaxSensorX, y \in 0..1, distance \in 0..MaxBeaconDistance}

calculate_manhattan_distance(self, other) == Abs(self.x - other.x) + Abs(self.y - other.y)

\* Lines 109-118 from the k-th reading on: start and end of the ranges of row y.
RECURSIVE RangesLoop(_, _, _, _)
RangesLoop(input, y, k, ranges) ==
    IF k > Len(input) THEN ranges
    ELSE LET loc_sens == input[k][1]
             mdist == calculate_manhattan_distance(loc_sens, input[k][2])
             delta_y == Abs(loc_sens.y - y)
         IN  IF delta_y > mdist THEN RangesLoop(input, y, k + 1, ranges)
             ELSE RangesLoop(input, y, k + 1,
                             Append(ranges, [start |-> loc_sens.x - mdist + delta_y,
                                             end |-> loc_sens.x + mdist - delta_y]))

\* A range put into ranges sorted by start, after those of the same start.
RECURSIVE InsertByStart(_, _)
InsertByStart(sorted, range) ==
    IF sorted = <<>> THEN <<range>>
    ELSE IF range.start < Head(sorted).start THEN <<range>> \o sorted
    ELSE <<Head(sorted)>> \o InsertByStart(Tail(sorted), range)

\* Lines 120-128: the stable sort by start.
RECURSIVE sort_by_start(_)
sort_by_start(ranges) ==
    IF ranges = <<>> THEN <<>>
    ELSE InsertByStart(sort_by_start(SubSeq(ranges, 1, Len(ranges) - 1)), ranges[Len(ranges)])

\* Lines 130-145, left and right counted from 0.
RECURSIVE GapLoop(_, _, _)
GapLoop(ranges, left, right) ==
    IF right >= Len(ranges) THEN [found |-> FALSE, x |-> 0]
    ELSE IF ranges[right + 1].start - ranges[left + 1].end = 2
    THEN [found |-> TRUE, x |-> ranges[left + 1].end + 1]
    ELSE IF ranges[right + 1].end > ranges[left + 1].end
    THEN GapLoop(ranges, right, right + 1)
    ELSE GapLoop(ranges, left, right + 1)

\* Lines 107-145 for row y.
RowGap(input, y) == GapLoop(sort_by_start(RangesLoop(input, y, 1, <<>>)), 0, 1)

D15Init ==
    /\ \E first \in Day15Readings, second \in Day15Readings, third \in Day15Readings :
        d15 = [pc |-> "running", input |-> <<first, second, third>>, y |-> 0, result |-> 0]
    /\ geo = Idle /\ d17 = Idle /\ d21 = Idle /\ d25 = Idle /\ parse = Idle
    /\ d23 = Idle /\ d24 = Idle /\ d18 = Idle /\ d16 = Idle /\ d19 = Idle
    /\ d11 = Idle /\ wild = Idle /\ d06 = Idle /\ main = Idle

D15Others ==
    UNCHANGED <<geo, d17, d21, d25, parse, d23, d24, d18, d16, d19, d11, wild, d06, main>>

\* A row without a gap of one column between its ranges.
D15NextRow ==
    /\ d15.pc = "running"
    /\ d15.y <= RowLimit
    /\ ~RowGap(d15.input, d15.y).found
    /\ d15' = [d15 EXCEPT !.y = @ + 1]
    /\ D15Others

\* Lines 136-138.
D15Return ==
    /\ d15.pc = "running"
    /\ d15.y <= RowLimit
    /\ \E gap \in {RowGap(d15.input, d15.y)} :
        /\ gap.found
        /\ d15' = [d15 EXCEPT !.pc = "returned", !.result = gap.x * 4000000 + d15.y]
    /\ D15Others

\* Line 147.
D15Panic ==
    /\ d15.pc = "running"
    /\ d15.y > RowLimit
    /\ d15' = [d15 EXCEPT !.pc = "panicked"]
    /\ D15Others

D15Next ==
    \/ D15NextRow
    \/ D15Return
    \/ D15Panic

SpecDay15 == D15Init /\ [][D15Next]_vars

\* The position is farther from every sensor than the sensor's closest beacon.
OutOfEveryReach(input, position) ==
    \A k \in DOMAIN input :
        calculate_manhattan_distance(input[k][1], position) >
            calculate_manhattan_distance(input[k][1], input[k][2])

\* C14: whenever solve_part2 returns a value, the value is x * 4000000 + y
\* for a position (x, y) of the searched square that is farther from every
\* sensor than the sensor's closest beacon.
C14_ReturnsPositionInSquare ==
    d15.pc = "returned" =>
        \E x \in 0..RowLimit, y \in 0..RowLimit :
            /\ d15.result = x * 4000000 + y
            /\ OutOfEveryReach(d15.input, Point2D(x, y))

(***************************************************************************)
(* utils/wildlife/monkey.rs: the Monkey of the library *)
(***************************************************************************)
\* Monkey::new of the library, whose worry levels are u64.
WildMonkey(items, op, divisor, true_monkey, false_monkey) ==
    [items |-> items, op |-> op, divisor |-> divisor, true_monkey |-> true_monkey,
     false_monkey |-> false_monkey, items_inspected |-> 0]

\* The monkey an item is thrown to, with the two monkeys exchanged.
WildThrowToOther(self, worry) ==
    IF worry % self.divisor = 0 THEN self.false_monkey ELSE self.true_monkey

\* Lines 72-78 of monkey.rs.
WildThrowTo(self, worry) ==
    IF worry % self.divisor = 0 THEN self.true_monkey ELSE self.false_monkey

\* The loop of lines 51-80 of monkey.rs from the monkey's first item on.
RECURSIVE WildInspectLoop(_, _, _, _, _)
WildInspectLoop(self, thrown_items, reduce_worry, supermodulo, build) ==
    IF self.items = <<>>
    THEN [panicked |-> FALSE, self |-> self, thrown_items |-> thrown_items]
    ELSE LET inspected ==
                 CASE self.op.kind = "Add" ->
                          CheckedUnsigned(Head(self.items) + self.op.value, U64Max, build)
                   [] self.op.kind = "Mult" ->
                          CheckedUnsigned(Head(self.items) * self.op.value, U64Max, build)
                   [] self.op.kind = "Pow" ->
                          CheckedUnsigned(Pow(Head(self.items), self.op.value), U64Max, build)
             relieved == IF reduce_worry THEN inspected.value \div 3 ELSE inspected.value
         IN  IF inspected.panicked \/ supermodulo = 0 THEN Panicked
             ELSE LET remainder == relieved % supermodulo
                      worry == IF remainder = 0 THEN supermodulo ELSE remainder
                  IN  IF self.divisor = 0 THEN Panicked
                      ELSE WildInspectLoop(
                               [self EXCEPT !.items = Tail(@), !.items_inspected = @ + 1],
                               Append(thrown_items, <<WildThrowTo(self, worry), worry>>),
                               reduce_worry, supermodulo, build)

wildlife_inspect_and_throw(self, reduce_worry, supermodulo, build) ==
    WildInspectLoop(self, <<>>, reduce_worry, supermodulo, build)

\* Worry levels and operands of the calls: small ones and the largest u64.
WildValues == 0..MaxItem \cup {U64Max - 1, U64Max}

\* The arguments both monkeys are made of and called with: up to two items,
\* an operation, a divisor, the two monkeys to throw to, the reduce_worry
\* flag, a supermodulo and the build.
WildInputs ==
    [items : {<<>>} \cup {<<item>> : item \in WildValues}
                    \cup {<<item, other>> : item \in WildValues, other \in 0..MaxItem},
     op : {OperationAdd(value) : value \in {1, U64Max}}
              \cup {OperationMult(value) : value \in {MaxOperand, U64Max}}
              \cup {OperationPow(2)},
     divisor : 0..MaxDivisor,
     true_monkey : {0}, false_monkey : 0..1,
     reduce_worry : BOOLEAN,
     supermodulo : {0, MaxDivisor, 2 * MaxDivisor + 1, U64Max},
     build : {"debug", "release"}]

WildInit ==
    /\ \E input \in WildInputs : wild = [pc |-> "made", input |-> input,
                                         library |-> Panicked, day11 |-> Panicked]
    /\ geo = Idle /\ d17 = Idle /\ d21 = Idle /\ d25 = Idle /\ parse = Idle
    /\ d23 = Idle /\ d24 = Idle /\ d18 = Idle /\ d16 = Idle /\ d19 = Idle
    /\ d11 = Idle /\ d06 = Idle /\ d15 = Idle /\ main = Idle

WildOthers ==
    UNCHANGED <<geo, d17, d21, d25, parse, d23, d24, d18, d16, d19, d11, d06, d15, main>>

\* inspect_and_throw of the library's monkey is called.
WildLibraryCall ==
    /\ wild.pc = "made"
    /\ LET input == wild.input
       IN  wild' = [wild EXCEPT
               !.pc = "library called",
               !.library = wildlife_inspect_and_throw(
                               WildMonkey(input.items, input.op, input.divisor,
                                          input.true_monkey, input.false_monkey),
                               input.reduce_worry, input.supermodulo, input.build)]
    /\ WildOthers

\* inspect_and_throw of the monkey of bin/day11.rs is called.
WildDay11Call ==
    /\ wild.pc = "library called"
    /\ LET input == wild.input
       IN  wild' = [wild EXCEPT
               !.pc = "both called",
               !.day11 = inspect_and_throw(
                             Monkey(input.items, input.op, input.divisor,
                                    input.true_monkey, input.false_monkey),
                             input.reduce_worry, input.supermodulo, input.build)]
    /\ WildOthers

WildNext ==
    \/ WildLibraryCall
    \/ WildDay11Call

SpecWildlife == WildInit /\ [][WildNext]_vars

\* Every worry level an inspection computes fits the u64.
WildFits ==
    \A k \in DOMAIN wild.input.items : Applied(wild.input.op, wild.input.items[k]) <= U64Max

\* C15: for the same items, operation, divisor, throw targets, reduce_worry
\* flag and supermodulo, with all intermediate worry values fitting in 64
\* bits, both inspect_and_throw return the same (target monkey, worry level)
\* pairs in the same order and add the same amount to the counter of
\* inspected items (or both panic, on a zero supermodulo or divisor).
C15_SameThrows ==
    (wild.pc = "both called" /\ WildFits) =>
        /\ wild.library.panicked = wild.day11.panicked
        /\ ~wild.library.panicked =>
              /\ wild.library.thrown_items = wild.day11.thrown_items
              /\ wild.library.self.items_inspected = wild.day11.self.items_inspected
              /\ wild.library.self.items = wild.day11.self.items

\* Both monkeys have thrown two items to different monkeys, one of them
\* with a worry level that was reduced from a remainder of zero.
C15_Witness ==
    /\ wild.pc = "both called"
    /\ WildFits
    /\ ~wild.library.panicked
    /\ Len(wild.library.thrown_items) = 2
    /\ wild.library.thrown_items[1][1] # wild.library.thrown_items[2][1]
    /\ wild.library.thrown_items[2][2] = wild.input.supermodulo
    /\ wild.library.self.items_inspected = 2

(***************************************************************************)
(* main and the part-2 tests of bin/day05.rs, day11.rs, day14.rs and *)
(* day23.rs: the days whose solvers mutate working state *)
(***************************************************************************)
\* Largest number of crates of a stack and of a move, largest number of move
\* instructions, and the lowest row of rock.
MaxCrates == 2

MaxInstructions == 2

MaxRockY == 2

\* The number of rounds solve_part2 of Day 11 asks for, and the number of
\* rounds solve_part1 of Day 23 conducts.
PART2_ROUNDS == 10000

PART1_DIFFUSION_ROUNDS == 10

sand_origin == Point2D(500, 0)

\* The solver's parameter written through as if it were `&mut`: the working
\* state is the caller's input itself.
InputMutatedInPlace(day, input, working) ==
    CASE day = 5 -> <<working.stacks, input[2]>>
      [] day = 11 -> working.monkeys
      [] day = 14 -> working.cave_map
      [] day = 23 -> working.elves

\* The caller's input after a step of the solver on its working state: the
\* solver holds a shared reference and works on a clone.
InputBorrowed(day, input, working) == input

\* Day 5, lines 101-106: quantity crates, one by one. An index that is out
\* of range and a pop from an empty stack panic.
RECURSIVE MoveOneByOne(_, _, _, _)
MoveOneByOne(stacks, quantity, from, to) ==
    IF quantity = 0 THEN [panicked |-> FALSE, stacks |-> stacks]
    ELSE IF from >= Len(stacks) \/ to >= Len(stacks) THEN Panicked
    ELSE IF stacks[from + 1] = <<>> THEN Panicked
    ELSE LET c == stacks[from + 1][Len(stacks[from + 1])]
             popped == [stacks EXCEPT ![from + 1] = SubSeq(@, 1, Len(@) - 1)]
         IN  MoveOneByOne([popped EXCEPT ![to + 1] = Append(@, c)], quantity - 1, from, to)

\* Day 5, lines 119-122: the crane picks up quantity crates.
RECURSIVE PickUp(_, _, _, _)
PickUp(stacks, quantity, from, move_queue) ==
    IF quantity = 0 THEN [panicked |-> FALSE, stacks |-> stacks, move_queue |-> move_queue]
    ELSE IF from >= Len(stacks) THEN Panicked
    ELSE IF stacks[from + 1] = <<>> THEN Panicked
    ELSE PickUp([stacks EXCEPT ![from + 1] = SubSeq(@, 1, Len(@) - 1)], quantity - 1, from,
                <<stacks[from + 1][Len(stacks[from + 1])]>> \o move_queue)

\* Day 5, lines 124-126: the crane puts them down.
RECURSIVE PutDown(_, _, _)
PutDown(stacks, to, move_queue) ==
    IF move_queue = <<>> THEN [panicked |-> FALSE, stacks |-> stacks]
    ELSE IF to >= Len(stacks) THEN Panicked
    ELSE PutDown([stacks EXCEPT ![to + 1] = Append(@, Head(move_queue))], to, Tail(move_queue))

MoveAtOnce(stacks, quantity, from, to) ==
    LET picked == PickUp(stacks, quantity, from, <<>>)
    IN  IF picked.panicked THEN Panicked ELSE PutDown(picked.stacks, to, picked.move_queue)

\* Day 5: the last crate of each stack; an empty stack panics.
construct_output_string(stacks) ==
    IF \E k \in DOMAIN stacks : stacks[k] = <<>> THEN Panicked
    ELSE [panicked |-> FALSE, value |-> [k \in DOMAIN stacks |-> stacks[k][Len(stacks[k])]]]

\* Day 11, lines 181-186: the turns of a round from monkey i on.
RECURSIVE RoundLoop(_, _, _, _)
RoundLoop(monkeys, i, reduce_worry, supermodulo) ==
    IF i >= Len(monkeys) THEN [panicked |-> FALSE, monkeys |-> monkeys]
    ELSE LET after == CHOOSE after \in {Turn(monkeys, i, reduce_worry, supermodulo, "debug")} : TRUE
         IN  IF after.panicked THEN Panicked
             ELSE RoundLoop(after.monkeys, i + 1, reduce_worry, supermodulo)

\* cave_map.insert(sand_loc, TileType::Sand)
WithSand(cave_map, sand_loc) ==
    [loc \in DOMAIN cave_map \cup {sand_loc} |-> IF loc = sand_loc THEN "Sand" ELSE cave_map[loc]]

\* Day 14, lines 121-151: one unit of sand from sand_loc on.
RECURSIVE SandFalls(_, _, _, _)
SandFalls(cave_map, sand_loc, max_y, include_floor) ==
    IF ~include_floor /\ sand_loc.y > max_y
    THEN [cave_map |-> cave_map, reached_base_case |-> TRUE]
    ELSE IF include_floor /\ sand_loc.y = max_y + 1
    THEN [cave_map |-> WithSand(cave_map, sand_loc), reached_base_case |-> FALSE]
    ELSE IF peek_move_point(sand_loc, 0, 1) \notin DOMAIN cave_map
    THEN SandFalls(cave_map, peek_move_point(sand_loc, 0, 1), max_y, include_floor)
    ELSE IF peek_move_point(sand_loc, -1, 1) \notin DOMAIN cave_map
    THEN SandFalls(cave_map, peek_move_point(sand_loc, -1, 1), max_y, include_floor)
    ELSE IF peek_move_point(sand_loc, 1, 1) \notin DOMAIN cave_map
    THEN SandFalls(cave_map, peek_move_point(sand_loc, 1, 1), max_y, include_floor)
    ELSE [cave_map |-> WithSand(cave_map, sand_loc),
          reached_base_case |-> include_floor /\ sand_loc = sand_origin]

\* Day 23: the empty tiles of the smallest rectangle that holds the elves;
\* without elves the unwrap of the minimum panics.
calculate_empty_spaces_in_bounding_rect(elves) ==
    IF elves = {} THEN Panicked
    ELSE LET xs == {loc.x : loc \in elves}
             ys == {loc.y : loc \in elves}
         IN  [panicked |-> FALSE,
              value |-> (SetMax(xs) - SetMin(xs) + 1) * (SetMax(ys) - SetMin(ys) + 1)
                        - Cardinality(elves)]

\* The working state a solver starts from: the clone of its input, and what
\* it computes before its loop.
Started(day, part, input) ==
    CASE day = 5 -> [panicked |-> FALSE, stacks |-> input[1]]
      [] day = 11 ->
            LET product == ProductLoop(input, 1, 1, "debug")
            IN  IF product.panicked THEN Panicked
                ELSE [panicked |-> FALSE, monkeys |-> input, supermodulo |-> product.value]
      [] day = 14 ->
            IF DOMAIN input = {} THEN Panicked
            ELSE [panicked |-> FALSE, cave_map |-> input,
                  max_y |-> SetMax({loc.y : loc \in DOMAIN input}),
                  reached_base_case |-> FALSE]
      [] day = 23 -> [panicked |-> FALSE, elves |-> input, none_moved |-> FALSE]

\* The solver's loop has ended after k passes.
Finished(day, part, input, working, k) ==
    CASE day = 5 -> k = Len(input[2])
      [] day = 11 -> k = (IF part = 1 THEN PART1_ROUNDS ELSE PART2_ROUNDS)
      [] day = 14 -> working.reached_base_case
      [] day = 23 -> IF part = 1 THEN k = PART1_DIFFUSION_ROUNDS ELSE working.none_moved

\* Pass k (from 0) of the solver's loop on its working state.
Pass(day, part, input, working, k) ==
    CASE day = 5 ->
            LET instruction == input[2][k + 1]
            IN  IF part = 1
                THEN MoveOneByOne(working.stacks, instruction[1], instruction[2], instruction[3])
                ELSE MoveAtOnce(working.stacks, instruction[1], instruction[2], instruction[3])
      [] day = 11 ->
            LET after == RoundLoop(working.monkeys, 0, part = 1, working.supermodulo)
            IN  IF after.panicked THEN Panicked
                ELSE [working EXCEPT !.monkeys = after.monkeys]
      [] day = 14 ->
            LET after == SandFalls(working.cave_map, sand_origin, working.max_y, part = 2)
            IN  [working EXCEPT !.cave_map = after.cave_map,
                                !.reached_base_case = after.reached_base_case]
      [] day = 23 ->
            LET after == conduct_diffusion_round(working.elves, k)
            IN  [working EXCEPT !.elves = after.elf_locs, !.none_moved = after.none_moved]

\* What the solver returns from its working state after k passes.
Solution(day, part, working, k) ==
    CASE day = 5 -> construct_output_string(working.stacks)
      [] day = 11 -> [panicked |-> FALSE, value |-> MonkeyBusinessLevel(working.monkeys)]
      [] day = 14 ->
            [panicked |-> FALSE,
             value |-> Cardinality({loc \in DOMAIN working.cave_map :
                                       working.cave_map[loc] = "Sand"})]
      [] day = 23 -> IF part = 1 THEN calculate_empty_spaces_in_bounding_rect(working.elves)
                     ELSE [panicked |-> FALSE, value |-> k]

\* Two stacks of at most MaxCrates crates and at most MaxInstructions moves
\* of at most MaxCrates crates between them.
Day5Instructions == {<<quantity, from, to>> : quantity \in 1..MaxCrates, from \in 0..1, to \in 0..1}

Day5Inputs ==
    {<<<<first, second>>, instructions>> :
        first \in {SubSeq(<<"A", "B", "C", "D">>, 1, n) : n \in 0..MaxCrates},
        second \in {SubSeq(<<"W", "X", "Y", "Z">>, 1, n) : n \in 0..MaxCrates},
        instructions \in UNION {[1..n -> Day5Instructions] : n \in 1..MaxInstructions}}

\* Two monkeys that pass one item around without overflow.
Day11MainInputs ==
    {<<Monkey(<<item>>, OperationAdd(1), MaxDivisor, 1, 1),
       Monkey(<<>>, OperationMult(MaxOperand), MaxDivisor, 0, false_monkey)>> :
        item \in 1..MaxItem, false_monkey \in 0..1}

\* Rock below the sand origin, or no rock at all.
Day14Inputs ==
    {[loc \in rock |-> "Rock"] :
        rock \in SUBSET {Point2D(x, y) : x \in 499..501, y \in 1..MaxRockY}}

\* The calls in order: solve_part2 of the test on the input it parsed, then
\* solve_part1 and solve_part2 of main on the input main parsed.
Calls == <<[of |-> "test", part |-> 2], [of |-> "main", part |-> 1], [of |-> "main", part |-> 2]>>

\* process_input_file has returned the same input in the test and in main.
Parsed(day, input) ==
    [pc |-> "call", call |-> 1, day |-> day, parsed |-> input,
     input |-> [test |-> input, main |-> input],
     working |-> [panicked |-> FALSE], k |-> 0, solution |-> <<0, 0, 0>>]

MainInit ==
    /\ \/ \E input \in Day5Inputs : main = Parsed(5, input)
       \/ \E input \in Day11MainInputs : main = Parsed(11, input)
       \/ \E input \in Day14Inputs : main = Parsed(14, input)
       \/ \E input \in Day23Inputs : main = Parsed(23, input)
    /\ geo = Idle /\ d17 = Idle /\ d21 = Idle /\ d25 = Idle /\ parse = Idle
    /\ d23 = Idle /\ d24 = Idle /\ d18 = Idle /\ d16 = Idle /\ d19 = Idle
    /\ d11 = Idle /\ wild = Idle /\ d06 = Idle /\ d15 = Idle

MainOthers ==
    UNCHANGED <<geo, d17, d21, d25, parse, d23, d24, d18, d16, d19, d11, wild, d06, d15>>

\* The input the current call was handed.
CallInput == main.input[Calls[main.call].of]

\* The solver is entered and clones its input.
MainCall ==
    /\ main.pc = "call"
    /\ \E working \in {Started(main.day, Calls[main.call].part, CallInput)} :
        /\ ~working.panicked
        /\ main' = [main EXCEPT !.pc = "solving", !.working = working, !.k = 0,
                                !.input[Calls[main.call].of] =
                                    InputBorrowed(main.day, CallInput, working)]
    /\ MainOthers

\* One pass of the solver's loop; the loop of Day 14 keeps no count.
MainPass ==
    /\ main.pc = "solving"
    /\ ~Finished(main.day, Calls[main.call].part, CallInput, main.working, main.k)
    /\ \E working \in {Pass(main.day, Calls[main.call].part, CallInput, main.working, main.k)} :
        /\ ~working.panicked
        /\ main' = [main EXCEPT !.working = working,
                                !.k = IF main.day = 14 THEN @ ELSE @ + 1,
                                !.input[Calls[main.call].of] =
                                    InputBorrowed(main.day, CallInput, working)]
    /\ MainOthers

\* The solver returns, and the next call follows.
MainReturn ==
    /\ main.pc = "solving"
    /\ Finished(main.day, Calls[main.call].part, CallInput, main.working, main.k)
    /\ \E solution \in {Solution(main.day, Calls[main.call].part, main.working, main.k)} :
        /\ ~solution.panicked
        /\ main' = [main EXCEPT !.pc = IF main.call = Len(Calls) THEN "done" ELSE "call",
                                !.call = IF main.call = Len(Calls) THEN @ ELSE @ + 1,
                                !.solution[main.call] = solution.value]
    /\ MainOthers

\* The clone's preparation, a pass or the construction of the solution
\* panics.
MainPanic ==
    /\ \/ main.pc = "call" /\ Started(main.day, Calls[main.call].part, CallInput).panicked
       \/ /\ main.pc = "solving"
          /\ IF Finished(main.day, Calls[main.call].part, CallInput, main.working, main.k)
             THEN Solution(main.day, Calls[main.call].part, main.working, main.k).panicked
             ELSE Pass(main.day, Calls[main.call].part, CallInput, main.working, main.k).panicked
    /\ main' = [main EXCEPT !.pc = "panicked"]
    /\ MainOthers

MainNext ==
    \/ MainCall
    \/ MainPass
    \/ MainReturn
    \/ MainPanic

SpecMain == MainInit /\ [][MainNext]_vars

====
